---------------------------- MODULE Spec2Model ----------------------------
(***************************************************************************)
(* Face-sound-trainer kiosk: the match engine and per-identity cooldown of *)
(* useFaceDetection, the welcome video of CameraOnly, the global-gate      *)
(* policy of useSimpleFaceDetection with its MediaPlayer, and the capture  *)
(* sessions of PersonRegistration and PersonEdit.                          *)
(*                                                                         *)
(* Numbers.  An embedding is a vector of coordinates given in tenths.      *)
(* A distance is a fixed-point number with Scale units per 1.0, rounded    *)
(* down: 600 stands for 0.6.  Rounding down keeps every comparison with    *)
(* the threshold exact (floor(x) < 600 iff x < 600), and distinct sums of  *)
(* squares of the modelled vectors keep distinct distances.  A confidence  *)
(* is a percentage in the same fixed point.  Times are milliseconds.       *)
(***************************************************************************)
EXTENDS Integers, Sequences, FiniteSets, TLC

VARIABLES
  \* ---- match engine (one detection matched against one gallery)
  registeredPeople,   \* the gallery snapshot startDetection was called with
  detection,          \* the descriptor of the face being matched, or NoFace
  result,             \* the DetectionResult handed to onDetection, or NoResult
  \* ---- detection loop of useFaceDetection + CameraOnly
  now,                \* Date.now()
  clockSteps,         \* how many times the clock has advanced (bounded)
  lastPlayedRef,      \* Map<string, number>: person id -> last sound time
  passes,             \* detectFaces passes awaiting detectAllFaces: the closure each holds
  videoToPlay,        \* CameraOnly state: Null or the id whose video is shown
  onDetectionVideo,   \* videoToPlay as captured by the handleDetection the interval calls
  delivered,          \* history: the results the last ended pass gave onDetection
  played,             \* history: the ids the last ended pass called playPersonSound for
  lastVideoAt,        \* history: person id -> when a VideoPlayer last opened for it
  \* ---- useSimpleFaceDetection + SimpleCameraView + CameraOnly + MediaPlayer
  simpleMounted,      \* the CameraOnly page with its SimpleCameraView is mounted
  isCameraActive,     \* CameraOnly state; the detection interval runs while it is set
  media,              \* CameraOnly state: NoMedia (null) or a row [soundUrl, videoUrl] (is a URL set?)
  mediaLoading,       \* CameraOnly state isLoading: loadMedia has not finished
  simpleLastPlayedRef, \* lastPlayedRef of useSimpleFaceDetection: a number
  isPlayingRef,       \* the playing flag of useSimpleFaceDetection
  simplePasses,       \* detectFaces passes awaiting detectSingleFace: media in their closure
  isPlayingMedia,     \* CameraOnly state: the MediaPlayer is rendered
  mediaPlayer,        \* MediaPlayer: "closed", "playing" or "closing" (onClose timer pending)
  isFaceDetected,     \* SimpleCameraView state set by onFaceDetected
  playsSinceReset,    \* history: onPlayMedia calls since the last resetPlayingState
  gateHeld,           \* history: a pass started before the trigger was stopped by the flag
  \* ---- PersonRegistration
  regOpen,            \* the registration dialog is mounted
  step,               \* 'name' | 'capture' | 'media'
  regName,            \* the name typed
  capturedDescriptors,
  capturedImages,
  isCapturing,
  autoCapturing,
  cameraActive,
  isFaceAligned,
  alignedTime,
  regCapture,         \* the handleCapture calls awaiting captureDescriptor: the lists in their closure
  lockoutTimer,       \* the setTimeout(() => setAutoCapturing(false), 800) is pending
  registered,         \* the people onRegister was called with
  closedBy,           \* history: "none", or what closed the dialog: "close" or "register"
  acceptedCaptures,   \* history: the descriptors of the accepted capture events
  dwellLost,          \* history: the dwell (ms) given up when alignment was last lost
  sinceAttempt,       \* history: ms passed at least since the last capture attempt finished, -1 before the first
  \* ---- PersonEdit
  editOpen,           \* the edit dialog is mounted
  isRecapturing,
  editDescriptors,    \* PersonEdit state capturedDescriptors
  editImages,         \* PersonEdit state capturedImages
  editIsCapturing,    \* PersonEdit state isCapturing
  editCameraActive,   \* PersonEdit state cameraActive
  editCapture,        \* the handleCapture calls awaiting captureDescriptor: the lists in their closure
  editSaved,          \* the descriptor lists of the people onSave was called with
  \* ---- PersonStorageContext (the gallery store) and the Admin page
  provider,           \* which PersonStorageProvider is mounted: "remote" or "local"
  table,              \* the rows of public.registered_people, oldest first
  localStorage,       \* the list serialised under STORAGE_KEY
  peopleList,         \* the provider's state `people`
  requests,           \* remote calls whose database request is done and whose response is awaited
  mediaConfig,        \* Admin state mediaConfig
  lastMutation,       \* history: the mutation the last step completed, or NoMutation
  \* ---- camera and interval of useFaceDetection / useSimpleFaceDetection
  videoRef,           \* videoRef.current is set
  srcObject,          \* the stream attached to the video element, or 0 (null)
  liveStreams,        \* the streams whose tracks are live
  streamsMade,        \* how many streams getUserMedia has given (their ids)
  cameraRequests,     \* startCamera calls awaiting getUserMedia
  detectionIntervalRef, \* the timer id in detectionIntervalRef.current, or 0 (null)
  timers,             \* the interval timers of the window that are active
  timersMade,         \* how many timers setInterval has given (their ids)
  cameraPasses,       \* detectFaces passes awaiting the detector
  hookError,          \* the hook's state `error`
  detectorBroken,     \* the detector rejects every call
  detectionFailed,    \* history: a pass has ended in the catch
  lastStop,           \* history: what the stopCamera that just returned found, or NoStop
  skipped,            \* history: the last step was a tick that returned at its guards
  viewActive,         \* CameraView's isActive, as its effect last saw it: startCamera or stopCamera
  hookMounted,        \* the component that uses the hook is mounted
  \* ---- model loading: the singleton of each hook module and the hook instances
  modelsLoaded,       \* per module: let modelsLoaded
  modelsLoading,      \* per module: let modelsLoading
  modelLoadPromise,   \* per module: 0 for null, or the index in promises of the promise held
  promises,           \* per module: the state of every load promise made, in order
  hooks               \* per hook instance: its React state, its calls and what they await

matchVars == <<registeredPeople, detection, result>>
clockVars == <<now, clockSteps>>
loopVars  == <<lastPlayedRef, passes, videoToPlay,
               onDetectionVideo, delivered, played, lastVideoAt>>
simpleVars == <<simpleMounted, isCameraActive, media, mediaLoading, simpleLastPlayedRef,
                isPlayingRef, simplePasses, isPlayingMedia, mediaPlayer, isFaceDetected,
                playsSinceReset, gateHeld>>
regVars == <<regOpen, step, regName, capturedDescriptors, capturedImages, isCapturing,
             autoCapturing, cameraActive, isFaceAligned, alignedTime, regCapture,
             lockoutTimer, registered, closedBy, acceptedCaptures,
             dwellLost, sinceAttempt>>
editVars == <<editOpen, isRecapturing, editDescriptors, editImages, editIsCapturing,
              editCameraActive, editCapture, editSaved>>
dialogVars == <<regVars, editVars>>
storeVars == <<provider, table, localStorage, peopleList, requests, mediaConfig, lastMutation>>
cameraVars == <<videoRef, srcObject, liveStreams, streamsMade, cameraRequests,
                detectionIntervalRef, timers, timersMade, cameraPasses, hookError,
                detectorBroken, detectionFailed, lastStop, skipped, viewActive, hookMounted>>
loadVars == <<modelsLoaded, modelsLoading, modelLoadPromise, promises, hooks>>
sideVars == <<storeVars, cameraVars, loadVars>>
vars == <<matchVars, clockVars, loopVars, simpleVars, dialogVars, sideVars>>

---------------------------------------------------------------------------
(* Bounds of the model *)

MaxPeople == 2
MaxDescriptors == 2
MaxFaces == 1        \* faces in one frame
MaxGroupFaces == 2   \* faces in one frame of the group scene
MaxPasses == 2       \* passes in flight at once
MaxClockSteps == 2   \* clock advances in one run
StartTime == 100000  \* Date.now() when the page opens (stands for epoch ms)
MaxRequests == 2     \* remote storage calls awaiting their response at once
MaxStreams == 2      \* streams getUserMedia gives in one run
MaxTimers == 2       \* timers setInterval gives in one run
MaxHooks == 3        \* hook instances mounted in one run
MaxCalls == 2        \* loadModels calls one hook instance makes
MaxLoads == 2        \* load promises one module makes

(* Values *)

Null == "null"
NoFace == <<>>
NoResult == [personId |-> "none", personName |-> "none", confidence |-> 0]

Scale == 1000
Infinity == 1000000000

PersonIds == <<"ana", "bob", "eva">>
PersonNames == [ana |-> "Ana", bob |-> "Bob", eva |-> "Eva"]

\* Stored embeddings (tenths), 0.6 apart.
StoredEmbeddings == { <<0, 0>>, <<6, 0>> }
\* Detected embeddings: at a stored one (the other exactly 0.6 away), 0.2/0.4
\* and 0.4/0.2 from the two, 0.5 from both, and 0.8/1.0 away.
DetectedEmbeddings == StoredEmbeddings \cup { <<2, 0>>, <<4, 0>>, <<3, 4>>, <<0, 8>> }

Min2(a, b) == IF a < b THEN a ELSE b

SeqsUpTo(S, n) == UNION { [1..m -> S] : m \in 0..n }

---------------------------------------------------------------------------
(* faceapi.euclideanDistance *)

SumSq(a, b) ==
  LET RECURSIVE Go(_)
      Go(i) == IF i > Len(a) THEN 0
               ELSE (a[i] - b[i]) * (a[i] - b[i]) + Go(i + 1)
  IN Go(1)

\* floor(sqrt(n)) for n < 4000000, by bisection.
RECURSIVE SqrtBetween(_, _, _)
SqrtBetween(n, lo, hi) ==
  IF lo = hi THEN lo
  ELSE LET mid == (lo + hi + 1) \div 2
       IN IF mid * mid <= n THEN SqrtBetween(n, mid, hi) ELSE SqrtBetween(n, lo, mid - 1)

Isqrt(n) == SqrtBetween(n, 0, 1999)

\* Math.sqrt of a sum of squares of tenths, in Scale units:
\* floor(Scale * sqrt(s) / 10).
Distance(s) == Isqrt(s * (Scale \div 10) * (Scale \div 10))

euclideanDistance(a, b) == Distance(SumSq(a, b))

---------------------------------------------------------------------------
(* useFaceDetection.startDetection: the match step *)

Threshold == 600

\* Evaluation note: an accumulator handed to the next iteration is bound by
\* a quantifier over a one-element set, so that it is computed once.

\* for (const descriptor of person.descriptors) { if (distance < minDistance) ... }
RECURSIVE MinDistanceFrom(_, _, _, _)
MinDistanceFrom(detectedDescriptor, descriptors, i, minDistance) ==
  IF i > Len(descriptors) THEN minDistance
  ELSE CHOOSE out \in
         { MinDistanceFrom(detectedDescriptor, descriptors, i + 1,
                           IF distance < minDistance THEN distance ELSE minDistance) :
             distance \in { euclideanDistance(detectedDescriptor, descriptors[i]) } } : TRUE

findBestMatchZeroWhenEmpty(detectedDescriptor, person) ==
  IF Len(person.descriptors) = 0 THEN 0
  ELSE MinDistanceFrom(detectedDescriptor, person.descriptors, 1, Infinity)

\* findBestMatch: the minimum distance over the person's descriptors,
\* Infinity for a person without descriptors.
findBestMatch(detectedDescriptor, person) ==
  IF Len(person.descriptors) = 0 THEN Infinity
  ELSE MinDistanceFrom(detectedDescriptor, person.descriptors, 1, Infinity)

\* let bestMatch = null
NoPerson == [id |-> Null, name |-> Null, descriptors |-> <<>>, videoData |-> FALSE]
NoMatch == [found |-> FALSE, person |-> NoPerson, distance |-> Infinity]

AcceptsFirstUnder(distance, bestMatch) ==
  distance < Threshold /\ ~bestMatch.found

AcceptsTies(distance, bestMatch) ==
  distance < Threshold /\ (~bestMatch.found \/ distance <= bestMatch.distance)

AcceptsAtThreshold(distance, bestMatch) ==
  distance <= Threshold /\ (~bestMatch.found \/ distance < bestMatch.distance)

\* if (distance < 0.6 && (!bestMatch || distance < bestMatch.distance))
Accepts(distance, bestMatch) ==
  distance < Threshold /\ (~bestMatch.found \/ distance < bestMatch.distance)

\* for (const person of registeredPeople) { ... bestMatch = { person, distance } }
RECURSIVE BestMatchFrom(_, _, _, _)
BestMatchFrom(descriptor, people, i, bestMatch) ==
  IF i > Len(people) THEN bestMatch
  ELSE CHOOSE out \in
         { BestMatchFrom(descriptor, people, i + 1, next) :
             next \in { LET distance == findBestMatch(descriptor, people[i])
                        IN IF Accepts(distance, bestMatch)
                           THEN [found |-> TRUE, person |-> people[i], distance |-> distance]
                           ELSE bestMatch } } : TRUE

BestMatch(descriptor, people) == BestMatchFrom(descriptor, people, 1, NoMatch)

DetectionResultNamesUnknown(bestMatch) ==
  IF ~bestMatch.found
  THEN [personId |-> Null, personName |-> "Desconocido", confidence |-> 0]
  ELSE [personId |-> bestMatch.person.id,
        personName |-> bestMatch.person.name,
        confidence |-> (Scale - bestMatch.distance) * 100]

\* const result: DetectionResult = { personId, personName, confidence, box }
DetectionResultOf(bestMatch) ==
  IF ~bestMatch.found
  THEN [personId |-> Null, personName |-> Null, confidence |-> 0]
  ELSE [personId |-> bestMatch.person.id,
        personName |-> bestMatch.person.name,
        confidence |-> (Scale - bestMatch.distance) * 100]

---------------------------------------------------------------------------
(* Galleries: people in array order, ids unique, each with 0..MaxDescriptors *)
(* stored descriptors.                                                      *)

Person(i, ds, video) ==
  [id |-> PersonIds[i], name |-> PersonNames[PersonIds[i]],
   descriptors |-> ds, videoData |-> video]

\* The descriptor lists a person may hold: 0..MaxDescriptors stored samples.
DescriptorLists == SeqsUpTo(StoredEmbeddings, MaxDescriptors)

\* The gallery of n people holding the descriptor lists dss[1], ..., dss[n].
GalleryOf(n, dss) == [i \in 1..n |-> Person(i, dss[i], FALSE)]

ClockIdle == now = StartTime /\ clockSteps = 0

LoopIdle ==
  /\ lastPlayedRef = <<>>
  /\ passes = <<>>
  /\ videoToPlay = Null /\ onDetectionVideo = Null
  /\ delivered = <<>> /\ played = <<>> /\ lastVideoAt = <<>>

\* useSimpleFaceDetection's refs and the CameraOnly page as constructed.
SimpleIdle ==
  /\ simpleMounted = TRUE /\ isCameraActive = FALSE
  /\ media = [row |-> FALSE, soundUrl |-> FALSE, videoUrl |-> FALSE] /\ mediaLoading = TRUE
  /\ simpleLastPlayedRef = 0 /\ isPlayingRef = FALSE
  /\ simplePasses = <<>>
  /\ isPlayingMedia = FALSE /\ mediaPlayer = "closed"
  /\ isFaceDetected = FALSE
  /\ playsSinceReset = 0 /\ gateHeld = FALSE

\* PersonRegistration's useState initial values.
RegIdle ==
  /\ regOpen = TRUE /\ step = "name" /\ regName = ""
  /\ capturedDescriptors = <<>> /\ capturedImages = <<>>
  /\ isCapturing = FALSE /\ autoCapturing = FALSE
  /\ cameraActive = FALSE /\ isFaceAligned = FALSE /\ alignedTime = 0
  /\ regCapture = <<>> /\ lockoutTimer = FALSE
  /\ registered = <<>> /\ closedBy = "none" /\ acceptedCaptures = <<>>
  /\ dwellLost = 0 /\ sinceAttempt = -1

\* PersonEdit's useState initial values.
EditIdle ==
  /\ editOpen = TRUE /\ isRecapturing = FALSE
  /\ editDescriptors = <<>> /\ editImages = <<>>
  /\ editIsCapturing = FALSE /\ editCameraActive = FALSE
  /\ editCapture = <<>> /\ editSaved = <<>>

\* Admin's useState initial values: no row loaded, name 'Saludo General'.
NoUrl == ""
NoConfig == [id |-> "", name |-> "Saludo General", videoUrl |-> NoUrl, soundUrl |-> NoUrl]
NoMutation == [op |-> "none", id |-> "", ok |-> FALSE]

\* PersonStorageProvider's useState initial values, over an empty store.
NoItem == [item |-> FALSE, list |-> <<>>]

StoreEmpty ==
  /\ table = <<>> /\ localStorage = NoItem
  /\ peopleList = <<>> /\ requests = <<>>
  /\ mediaConfig = NoConfig
  /\ lastMutation = NoMutation

StoreIdle == provider = "remote" /\ StoreEmpty

NoStop == [called |-> FALSE, stream |-> 0, timer |-> 0]

\* The hook's refs and state as constructed, with a working detector.
CameraEmpty ==
  /\ videoRef = FALSE /\ srcObject = 0 /\ liveStreams = {} /\ streamsMade = 0
  /\ cameraRequests = 0
  /\ detectionIntervalRef = 0 /\ timers = {} /\ timersMade = 0
  /\ cameraPasses = 0
  /\ hookError = Null
  /\ detectionFailed = FALSE
  /\ lastStop = NoStop
  /\ skipped = FALSE
  /\ viewActive = FALSE
  /\ hookMounted = TRUE

Modules == {"useFaceDetection", "useSimpleFaceDetection"}
HookInstances == 1..MaxHooks

\* The module an instance comes from: CameraView and the registration dialog
\* use useFaceDetection, the simple view useSimpleFaceDetection.
ModuleOf(h) == IF h % 2 = 1 THEN "useFaceDetection" ELSE "useSimpleFaceDetection"

NotMounted ==
  [mounted |-> FALSE, isModelLoaded |-> FALSE, isLoading |-> FALSE, error |-> Null,
   awaiting |-> <<>>, calls |-> 0]

\* The module singletons as the modules are first evaluated, no hook mounted.
LoadIdle ==
  /\ modelsLoaded = [m \in Modules |-> FALSE]
  /\ modelsLoading = [m \in Modules |-> FALSE]
  /\ modelLoadPromise = [m \in Modules |-> 0]
  /\ promises = [m \in Modules |-> <<>>]
  /\ hooks = [h \in HookInstances |-> NotMounted]

SideIdle == StoreIdle /\ CameraEmpty /\ detectorBroken = FALSE /\ LoadIdle

MatchInit ==
  /\ \E n \in 0..Min2(MaxPeople, Len(PersonIds)) :
       \E dss \in [1..n -> DescriptorLists] : registeredPeople = GalleryOf(n, dss)
  /\ detection = NoFace
  /\ result = NoResult
  /\ ClockIdle /\ LoopIdle /\ SimpleIdle /\ RegIdle /\ EditIdle /\ SideIdle

\* One detection of a pass: the match and the result handed to onDetection.
MatchOne(e) ==
  /\ detection' = e
  /\ result' = DetectionResultOf(BestMatch(e, registeredPeople))
  /\ UNCHANGED <<registeredPeople, sideVars, clockVars, loopVars, simpleVars, dialogVars>>

MatchNext == \E e \in DetectedEmbeddings : MatchOne(e)

SpecMatch == MatchInit /\ [][MatchNext]_vars

---------------------------------------------------------------------------
(* useFaceDetection.startDetection: the cooldown and the detection loop,   *)
(* with CameraOnly.handleDetection as the onDetection callback.            *)

Cooldown == 30000

\* The clock moves by 1 ms or by a whole window: from a trigger at t0 it
\* reaches t0 + 1, t0 + 30000 (the window's last instant) and t0 + 30001.
ClockSteps == { 1, Cooldown }

\* lastPlayedRef.current.get(id) || 0
LastPlayed(map, id) == IF id \in DOMAIN map THEN map[id] ELSE 0

MapSetDropped(map, id, t) == map

MapSetAll(map, id, t) == [k \in (DOMAIN map) \cup {id} |-> t]

\* lastPlayedRef.current.set(id, t)
MapSet(map, id, t) == [k \in (DOMAIN map) \cup {id} |-> IF k = id THEN t ELSE map[k]]

ShouldTriggerAlways(t, lastPlayed) == TRUE

ShouldTriggerAtEnd(t, lastPlayed) == t - lastPlayed >= Cooldown

\* if (now - lastPlayed > 30000)
ShouldTrigger(t, lastPlayed) == t - lastPlayed > Cooldown

\* people.find(p => p.id === result.personId)
FindPerson(people, id) ==
  LET hits == { i \in 1..Len(people) : people[i].id = id }
  IN IF hits = {} THEN NoPerson
     ELSE people[CHOOSE i \in hits : \A j \in hits : i <= j]

\* CameraOnly.handleDetection: the value setVideoToPlay is called with, or
\* `pending` when it is not called.  closureVideo is the videoToPlay the
\* callback was created with.
HandleDetection(res, people, closureVideo, pending) ==
  IF res.personId # Null /\ res.personName # Null
     /\ FindPerson(people, res.personId).videoData /\ closureVideo = Null
  THEN res.personId
  ELSE pending

Unset == "unset"

DetectOneSilentInCooldown(face, people, t, closureVideo, acc) ==
  LET bestMatch == BestMatch(face, people)
      id == bestMatch.person.id
      play == bestMatch.found /\ ShouldTrigger(t, LastPlayed(acc.map, id))
      res == DetectionResultOf(IF play THEN bestMatch ELSE NoMatch)
  IN [map       |-> IF play THEN MapSet(acc.map, id, t) ELSE acc.map,
      played    |-> IF play THEN Append(acc.played, id) ELSE acc.played,
      delivered |-> Append(acc.delivered, res),
      video     |-> HandleDetection(res, people, closureVideo, acc.video)]

\* One iteration of `for (const detection of detections)`: the match, the
\* cooldown with playPersonSound, and onDetection(result).
\* acc: the map, the results delivered, the sounds played and the pending
\* setVideoToPlay value so far.
DetectOne(face, people, t, closureVideo, acc) ==
  LET bestMatch == BestMatch(face, people)
      res == DetectionResultOf(bestMatch)
      id == bestMatch.person.id
      play == bestMatch.found /\ ShouldTrigger(t, LastPlayed(acc.map, id))
  IN [map       |-> IF play THEN MapSet(acc.map, id, t) ELSE acc.map,
      played    |-> IF play THEN Append(acc.played, id) ELSE acc.played,
      delivered |-> Append(acc.delivered, res),
      video     |-> HandleDetection(res, people, closureVideo, acc.video)]

LengthMismatchWhenLonger(descriptor, people) ==
  \E i \in 1..Len(people) : \E j \in 1..Len(people[i].descriptors) :
    Len(descriptor) > Len(people[i].descriptors[j])

\* findBestMatch hands the detected descriptor and every stored descriptor of
\* every person to faceapi.euclideanDistance, which throws
\* 'euclideanDistance: arr1.length !== arr2.length' when the two lengths
\* differ; nothing between that call and the catch of detectFaces handles it.
LengthMismatch(descriptor, people) ==
  \E i \in 1..Len(people) : \E j \in 1..Len(people[i].descriptors) :
    Len(descriptor) # Len(people[i].descriptors[j])

\* for (const detection of detections) { ... }, from detection i on.  An
\* exception thrown for detection i leaves the loop for the catch, which logs
\* it: what the earlier detections did stays, the later ones are not looked at.
RECURSIVE DetectLoop(_, _, _, _, _, _)
DetectLoop(faces, i, people, t, closureVideo, acc) ==
  IF i > Len(faces) THEN acc
  ELSE IF LengthMismatch(faces[i], people) THEN acc
  ELSE CHOOSE out \in { DetectLoop(faces, i + 1, people, t, closureVideo, acc2) :
                          acc2 \in { DetectOne(faces[i], people, t, closureVideo, acc) } } :
         TRUE

\* The interval fires detectFaces, which runs up to its await.
Tick ==
  /\ Len(passes) < MaxPasses
  /\ passes' = Append(passes, [people |-> registeredPeople, video |-> onDetectionVideo])
  /\ UNCHANGED <<matchVars, sideVars, clockVars, lastPlayedRef, videoToPlay,
                 onDetectionVideo, delivered, played, lastVideoAt, simpleVars, dialogVars>>

RemoveAt(seq, k) == [j \in 1..(Len(seq) - 1) |-> IF j < k THEN seq[j] ELSE seq[j + 1]]

\* detectAllFaces resolves for pass k with `faces`; the rest of detectFaces
\* runs, then React commits the state update and CameraView's effect calls
\* startDetection with the new handleDetection.
Resume(k, faces) ==
  LET pass == passes[k]
      acc0 == [map |-> lastPlayedRef, played |-> <<>>, delivered |-> <<>>, video |-> Unset]
  IN \E acc \in { DetectLoop(faces, 1, pass.people, now, pass.video, acc0) } :
       LET committed == IF acc.video = Unset THEN videoToPlay ELSE acc.video
       IN /\ passes' = RemoveAt(passes, k)
          /\ lastPlayedRef' = acc.map
          /\ played' = acc.played
          /\ delivered' = acc.delivered
          /\ videoToPlay' = committed
          /\ onDetectionVideo' = committed
          /\ lastVideoAt' = IF videoToPlay = Null /\ committed # Null
                            THEN MapSet(lastVideoAt, committed, now) ELSE lastVideoAt
          /\ UNCHANGED <<matchVars, sideVars, clockVars, simpleVars, dialogVars>>

\* detectAllFaces rejects: the catch logs the error and the pass ends.
ResumeError(k) ==
  /\ passes' = RemoveAt(passes, k)
  /\ delivered' = <<>>
  /\ played' = <<>>
  /\ UNCHANGED <<matchVars, sideVars, clockVars, lastPlayedRef, videoToPlay,
                 onDetectionVideo, lastVideoAt, simpleVars, dialogVars>>

\* CameraOnly.handleVideoClose: the video ended or the close button was pressed.
HandleVideoClose ==
  /\ videoToPlay # Null
  /\ videoToPlay' = Null
  /\ onDetectionVideo' = Null
  /\ UNCHANGED <<matchVars, sideVars, clockVars, lastPlayedRef, passes,
                 delivered, played, lastVideoAt, simpleVars, dialogVars>>

AdvanceClock(d) ==
  /\ clockSteps < MaxClockSteps
  /\ clockSteps' = clockSteps + 1
  /\ now' = now + d
  /\ UNCHANGED <<matchVars, sideVars, loopVars, simpleVars, dialogVars>>

\* Faces the camera sees in the loop: at Ana's sample, at Bob's, and far
\* from both.
LoopFaces == { <<0, 0>>, <<6, 0>>, <<0, 8>> }

\* The kiosk's galleries: Ana alone with a welcome video, or Ana and Bob
\* with a sound only; one stored sample each.
LoopGalleries ==
  { << Person(1, << <<0, 0>> >>, TRUE) >>,
    << Person(1, << <<0, 0>> >>, FALSE), Person(2, << <<6, 0>> >>, FALSE) >> }

LoopInit ==
  /\ registeredPeople \in LoopGalleries
  /\ detection = NoFace
  /\ result = NoResult
  /\ ClockIdle /\ LoopIdle /\ SimpleIdle /\ RegIdle /\ EditIdle /\ SideIdle

LoopNext ==
  \/ Tick
  \/ \E k \in 1..Len(passes) : \E faces \in SeqsUpTo(LoopFaces, MaxFaces) : Resume(k, faces)
  \/ \E k \in 1..Len(passes) : ResumeError(k)
  \/ HandleVideoClose
  \/ \E d \in ClockSteps : AdvanceClock(d)

SpecLoop == LoopInit /\ [][LoopNext]_vars

\* The gallery loses its i-th person (removePerson) while the loop runs:
\* CameraView's effect calls startDetection with the new registeredPeople.
\* startDetection replaces the interval and leaves lastPlayedRef as it is; a
\* pass in flight keeps the gallery it was started with.
RestartWithout(i) ==
  /\ registeredPeople' = RemoveAt(registeredPeople, i)
  /\ UNCHANGED <<detection, result, sideVars, clockVars, loopVars, simpleVars, dialogVars>>

SpecRestart ==
  LoopInit /\ [][LoopNext \/ \E i \in 1..Len(registeredPeople) : RestartWithout(i)]_vars

\* The same loop in front of two faces that stay for the whole run: Ana's,
\* detected first, and `detection`, which is a second face at Ana's sample or
\* a descriptor of another length than the stored ones.
MalformedInit ==
  /\ registeredPeople \in LoopGalleries
  /\ detection \in { <<0, 0>>, <<0>> }
  /\ result = NoResult
  /\ ClockIdle /\ LoopIdle /\ SimpleIdle /\ RegIdle /\ EditIdle /\ SideIdle

SpecMalformed ==
  /\ MalformedInit
  /\ [][ \/ Tick
         \/ \E k \in 1..Len(passes) : Resume(k, << <<0, 0>>, detection >>)
         \/ \E k \in 1..Len(passes) : ResumeError(k)
         \/ HandleVideoClose
         \/ \E d \in ClockSteps : AdvanceClock(d) ]_vars

\* The restarts again, in front of one face per frame at Ana's or at Bob's
\* sample, with Ana and Bob registered without videos.
KeepInit ==
  /\ registeredPeople = << Person(1, << <<0, 0>> >>, FALSE), Person(2, << <<6, 0>> >>, FALSE) >>
  /\ detection = NoFace
  /\ result = NoResult
  /\ ClockIdle /\ LoopIdle /\ SimpleIdle /\ RegIdle /\ EditIdle /\ SideIdle

SpecKeep ==
  /\ KeepInit
  /\ [][ \/ Tick
         \/ \E k \in 1..Len(passes) : \E face \in { <<0, 0>>, <<6, 0>> } : Resume(k, <<face>>)
         \/ \E d \in ClockSteps : AdvanceClock(d)
         \/ \E i \in 1..Len(registeredPeople) : RestartWithout(i) ]_vars

\* The same loop on a device whose clock reads the epoch when the page opens
\* (Date.now() = 0, the t = 0 of a test clock).
EpochInit ==
  /\ registeredPeople \in LoopGalleries
  /\ detection = NoFace
  /\ result = NoResult
  /\ now = 0 /\ clockSteps = 0
  /\ LoopIdle /\ SimpleIdle /\ RegIdle /\ EditIdle /\ SideIdle

SpecEpoch == EpochInit /\ [][LoopNext]_vars

\* The same loop in front of a group: Ana and Bob both have a welcome video
\* and a frame holds up to MaxGroupFaces faces, each at Ana's or at Bob's
\* sample; the clock stands still.
GroupFaces == { <<0, 0>>, <<6, 0>> }

GroupInit ==
  /\ registeredPeople = << Person(1, << <<0, 0>> >>, TRUE), Person(2, << <<6, 0>> >>, TRUE) >>
  /\ detection = NoFace
  /\ result = NoResult
  /\ ClockIdle /\ LoopIdle /\ SimpleIdle /\ RegIdle /\ EditIdle /\ SideIdle

GroupNext ==
  \/ Tick
  \/ \E k \in 1..Len(passes) : \E faces \in SeqsUpTo(GroupFaces, MaxGroupFaces) : Resume(k, faces)
  \/ \E k \in 1..Len(passes) : ResumeError(k)
  \/ HandleVideoClose

SpecGroup == GroupInit /\ [][GroupNext]_vars

---------------------------------------------------------------------------
(* useSimpleFaceDetection (the global gate), driven by SimpleCameraView,   *)
(* with CameraOnly's handlePlayMedia / handleMediaClose and MediaPlayer.   *)

\* What loadMedia may find: no row, or a row with each URL set or not.
NoMedia == [row |-> FALSE, soundUrl |-> FALSE, videoUrl |-> FALSE]
MediaConfigs ==
  { NoMedia } \cup { [row |-> TRUE, soundUrl |-> su, videoUrl |-> vu] : su \in BOOLEAN, vu \in BOOLEAN }

GateIgnored(playing) == TRUE

\* !isPlayingRef.current
GateOpen(playing) == ~playing

CooldownPassedAtEnd(t, lastPlayed) == t - lastPlayed >= Cooldown

\* if (now - lastPlayedRef.current > cooldown)
CooldownPassed(t, lastPlayed) == t - lastPlayed > Cooldown

\* CameraOnly.handlePlayMedia with `m` in its closure: does it call
\* setIsPlayingMedia(true)?
HandlePlayMedia(m) == m.row /\ (m.soundUrl \/ m.videoUrl)

\* CameraOnly's loadMedia finishes: a row with its URLs, or none.
LoadMedia(m) ==
  /\ simpleMounted /\ mediaLoading
  /\ media' = m
  /\ mediaLoading' = FALSE
  /\ UNCHANGED <<matchVars, sideVars, clockVars, loopVars, dialogVars, simpleMounted, isCameraActive,
                 simpleLastPlayedRef, isPlayingRef, simplePasses, isPlayingMedia,
                 mediaPlayer, isFaceDetected, playsSinceReset, gateHeld>>

\* onToggle.  On: startCamera succeeds, the video is ready and startDetection
\* sets the interval.  Off: stopCamera clears the interval.
SimpleToggle ==
  /\ simpleMounted
  /\ isCameraActive' = ~isCameraActive
  /\ isFaceDetected' = IF isCameraActive THEN FALSE ELSE isFaceDetected
  /\ UNCHANGED <<matchVars, sideVars, clockVars, loopVars, dialogVars, simpleMounted, media,
                 mediaLoading, simpleLastPlayedRef, isPlayingRef, simplePasses,
                 isPlayingMedia, mediaPlayer, playsSinceReset, gateHeld>>

\* The interval fires detectFaces, which passes its guards and runs up to its
\* await.  The pass holds the media startDetection was last called with.
SimpleTick ==
  /\ simpleMounted /\ isCameraActive
  /\ Len(simplePasses) < MaxPasses
  /\ simplePasses' = Append(simplePasses, [media |-> media, startedPlaying |-> isPlayingRef])
  /\ UNCHANGED <<matchVars, sideVars, clockVars, loopVars, dialogVars, simpleMounted, isCameraActive,
                 media, mediaLoading, simpleLastPlayedRef, isPlayingRef, isPlayingMedia,
                 mediaPlayer, isFaceDetected, playsSinceReset, gateHeld>>

\* detectSingleFace resolves for pass k; the rest of detectFaces runs.  After
\* the page was left the state setters do nothing; the refs are still there.
SimpleResume(k, faceDetected) ==
  LET pass == simplePasses[k]
      gate == faceDetected /\ pass.media.row
      trigger == gate /\ GateOpen(isPlayingRef) /\ CooldownPassed(now, simpleLastPlayedRef)
      opens == trigger /\ simpleMounted /\ HandlePlayMedia(pass.media)
  IN /\ simplePasses' = RemoveAt(simplePasses, k)
     /\ isFaceDetected' = IF simpleMounted THEN faceDetected ELSE isFaceDetected
     /\ simpleLastPlayedRef' = IF trigger THEN now ELSE simpleLastPlayedRef
     /\ isPlayingRef' = (trigger \/ isPlayingRef)
     /\ playsSinceReset' = IF trigger THEN playsSinceReset + 1 ELSE playsSinceReset
     /\ isPlayingMedia' = (opens \/ isPlayingMedia)
     /\ mediaPlayer' = IF opens /\ ~isPlayingMedia THEN "playing" ELSE mediaPlayer
     /\ gateHeld' = (gateHeld \/ (gate /\ isPlayingRef /\ ~pass.startedPlaying))
     /\ UNCHANGED <<matchVars, sideVars, clockVars, loopVars, dialogVars, simpleMounted, isCameraActive,
                    media, mediaLoading>>

\* detectSingleFace rejects: the catch logs the error and the pass ends.
SimpleResumeError(k) ==
  /\ simplePasses' = RemoveAt(simplePasses, k)
  /\ UNCHANGED <<matchVars, sideVars, clockVars, loopVars, dialogVars, simpleMounted, isCameraActive,
                 media, mediaLoading, simpleLastPlayedRef, isPlayingRef, isPlayingMedia,
                 mediaPlayer, isFaceDetected, playsSinceReset, gateHeld>>

\* MediaPlayer.handleClose: the media ended, failed or was clicked;
\* setTimeout(onClose, 500) is set.
MediaEnds ==
  /\ mediaPlayer = "playing"
  /\ mediaPlayer' = "closing"
  /\ UNCHANGED <<matchVars, sideVars, clockVars, loopVars, dialogVars, simpleMounted, isCameraActive,
                 media, mediaLoading, simpleLastPlayedRef, isPlayingRef, simplePasses,
                 isPlayingMedia, isFaceDetected, playsSinceReset, gateHeld>>

\* The timer fires onClose, CameraOnly.handleMediaClose: setIsPlayingMedia(false).
HandleMediaClose ==
  /\ mediaPlayer = "closing"
  /\ mediaPlayer' = "closed"
  /\ isPlayingMedia' = FALSE
  /\ UNCHANGED <<matchVars, sideVars, clockVars, loopVars, dialogVars, simpleMounted, isCameraActive,
                 media, mediaLoading, simpleLastPlayedRef, isPlayingRef, simplePasses,
                 isFaceDetected, playsSinceReset, gateHeld>>

\* The page is left (the Link to /admin): SimpleCameraView's cleanup calls
\* resetPlayingState, the hook's cleanup clears the interval, and the page's
\* state is gone.  Passes in flight stay in flight.
SimpleUnmount ==
  /\ simpleMounted
  /\ simpleMounted' = FALSE
  /\ isPlayingRef' = FALSE
  /\ playsSinceReset' = 0
  /\ gateHeld' = FALSE
  /\ isCameraActive' = FALSE
  /\ media' = NoMedia /\ mediaLoading' = FALSE
  /\ isPlayingMedia' = FALSE /\ mediaPlayer' = "closed"
  /\ isFaceDetected' = FALSE
  /\ UNCHANGED <<matchVars, sideVars, clockVars, loopVars, dialogVars, simpleLastPlayedRef, simplePasses>>

\* The page is opened again: new state and a new hook with new refs.  Passes
\* of the former hook work on its refs and can no longer be observed.
SimpleMount ==
  /\ ~simpleMounted
  /\ simpleMounted' = TRUE
  /\ mediaLoading' = TRUE
  /\ simpleLastPlayedRef' = 0
  /\ isPlayingRef' = FALSE
  /\ simplePasses' = <<>>
  /\ playsSinceReset' = 0
  /\ gateHeld' = FALSE
  /\ UNCHANGED <<matchVars, sideVars, clockVars, loopVars, dialogVars, isCameraActive, media,
                 isPlayingMedia, mediaPlayer, isFaceDetected>>

SimpleInit ==
  /\ registeredPeople = <<>>
  /\ detection = NoFace
  /\ result = NoResult
  /\ ClockIdle /\ LoopIdle /\ SimpleIdle /\ RegIdle /\ EditIdle /\ SideIdle

SimpleNext ==
  \/ \E m \in MediaConfigs : LoadMedia(m)
  \/ SimpleToggle
  \/ SimpleTick
  \/ \E k \in 1..Len(simplePasses) : \E faceDetected \in BOOLEAN : SimpleResume(k, faceDetected)
  \/ \E k \in 1..Len(simplePasses) : SimpleResumeError(k)
  \/ MediaEnds
  \/ HandleMediaClose
  \/ SimpleUnmount
  \/ SimpleMount
  \/ \E d \in ClockSteps : AdvanceClock(d)

SpecSimple == SimpleInit /\ [][SimpleNext]_vars

---------------------------------------------------------------------------
(* PersonRegistration: one registration dialog from its opening.  The      *)
(* overlay flag isFaceDetected, the media-step inputs and isModelLoaded     *)
(* (true once the camera can start) stay out of the model.                 *)

REQUIRED_CAPTURES == 5
DwellMs == 1500        \* if (newTime >= 1500)
AlignStepMs == 100     \* prev + 100, every 100 ms
LockoutMs == 800       \* setTimeout(() => setAutoCapturing(false), 800)

\* The names the input may hold: empty or not.
RegNames == { "", "Ana" }

\* captureDescriptor() returns a descriptor or null, captureSnapshot() an
\* image or null.
NoDescriptor == <<>>
CaptureOutcomes == (StoredEmbeddings \cup { NoDescriptor }) \X { "jpeg", Null }

CaptureCompleteLate(newDescriptors) == Len(newDescriptors) > REQUIRED_CAPTURES

CaptureCompleteEarly(newDescriptors) == Len(newDescriptors) >= REQUIRED_CAPTURES - 1

\* if (newDescriptors.length >= REQUIRED_CAPTURES)
CaptureComplete(newDescriptors) == Len(newDescriptors) >= REQUIRED_CAPTURES

CloseCommits(people, person) == Append(people, person)

\* <button onClick={onClose}>: what the gallery's owner has received after it.
CloseButton(people, person) == people

DwellReachedEarly(newTime) == newTime >= DwellMs - AlignStepMs

\* if (newTime >= 1500)
DwellReached(newTime) == newTime >= DwellMs

AutoCaptureArmedUnaligned(aligned, capturing, auto, st) ==
  ~capturing /\ ~auto /\ st = "capture"

AutoCaptureArmedInLockout(aligned, capturing, auto, st) ==
  aligned /\ ~capturing /\ st = "capture"

\* The auto-capture effect's condition: its interval runs while this holds.
AutoCaptureArmed(aligned, capturing, auto, st) ==
  aligned /\ ~capturing /\ ~auto /\ st = "capture"

\* onChange of the name input.
SetName(n) ==
  /\ regOpen /\ step = "name"
  /\ regName' = n
  /\ UNCHANGED <<matchVars, sideVars, clockVars, loopVars, simpleVars, editVars, regOpen, step,
                 capturedDescriptors, capturedImages, isCapturing, autoCapturing,
                 cameraActive, isFaceAligned, alignedTime, regCapture, lockoutTimer,
                 registered, closedBy, acceptedCaptures, dwellLost, sinceAttempt>>

\* The Continuar button: setStep('capture'); disabled while the name is blank.
Continue ==
  /\ regOpen /\ step = "name" /\ regName # ""
  /\ step' = "capture"
  /\ UNCHANGED <<matchVars, sideVars, clockVars, loopVars, simpleVars, editVars, regOpen, regName,
                 capturedDescriptors, capturedImages, isCapturing, autoCapturing,
                 cameraActive, isFaceAligned, alignedTime, regCapture, lockoutTimer,
                 registered, closedBy, acceptedCaptures, dwellLost, sinceAttempt>>

\* The camera effect: startCamera resolved with success; setCameraActive(true)
\* and startFaceTracking().
RegCameraStarts ==
  /\ regOpen /\ step = "capture" /\ ~cameraActive
  /\ cameraActive' = TRUE
  /\ UNCHANGED <<matchVars, sideVars, clockVars, loopVars, simpleVars, editVars, regOpen, step, regName,
                 capturedDescriptors, capturedImages, isCapturing, autoCapturing,
                 isFaceAligned, alignedTime, regCapture, lockoutTimer,
                 registered, closedBy, acceptedCaptures, dwellLost, sinceAttempt>>

\* A pass of startFaceTracking's detectFace: setIsFaceAligned(aligned); the
\* auto-capture effect resets the dwell when it is not armed.
FaceTracked(aligned) ==
  /\ regOpen /\ cameraActive
  /\ isFaceAligned' = aligned
  /\ alignedTime' = IF AutoCaptureArmed(aligned, isCapturing, autoCapturing, step)
                    THEN alignedTime ELSE 0
  /\ dwellLost' = IF isFaceAligned /\ ~aligned /\ alignedTime > 0 THEN alignedTime ELSE dwellLost
  /\ UNCHANGED <<matchVars, sideVars, clockVars, loopVars, simpleVars, editVars, regOpen, step, regName,
                 capturedDescriptors, capturedImages, isCapturing, autoCapturing,
                 cameraActive, regCapture, lockoutTimer,
                 registered, closedBy, acceptedCaptures, sinceAttempt>>

\* The auto-capture interval fires: the dwell grows by 100 ms; at 1500 ms the
\* interval is cleared and handleCapture runs up to its await.
AlignTick ==
  /\ regOpen /\ AutoCaptureArmed(isFaceAligned, isCapturing, autoCapturing, step)
  /\ LET newTime == alignedTime + AlignStepMs
     IN IF DwellReached(newTime)
        THEN /\ alignedTime' = 0
             /\ isCapturing' = TRUE
             /\ autoCapturing' = TRUE
             /\ regCapture' = Append(regCapture, [descriptors |-> capturedDescriptors,
                                                  images |-> capturedImages])
        ELSE /\ alignedTime' = newTime
             /\ UNCHANGED <<isCapturing, autoCapturing, regCapture>>
  /\ sinceAttempt' = IF sinceAttempt < 0 THEN sinceAttempt
                     ELSE Min2(sinceAttempt + AlignStepMs, LockoutMs + DwellMs)
  /\ UNCHANGED <<matchVars, sideVars, clockVars, loopVars, simpleVars, editVars, regOpen, step, regName,
                 capturedDescriptors, capturedImages, cameraActive, isFaceAligned,
                 lockoutTimer, registered, closedBy, acceptedCaptures, dwellLost>>

\* captureDescriptor resolves; the rest of handleCapture runs and sets the
\* 800 ms timer.  In a closed dialog the state setters do nothing.
CaptureResolves(descriptor, image) ==
  /\ regCapture # <<>>
  /\ LET closure == Head(regCapture)
         accepted == descriptor # NoDescriptor /\ image # Null
         newDescriptors == Append(closure.descriptors, descriptor)
         newImages == Append(closure.images, image)
         complete == accepted /\ CaptureComplete(newDescriptors)
     IN /\ regCapture' = Tail(regCapture)
        /\ lockoutTimer' = TRUE
        /\ IF regOpen
           THEN /\ capturedDescriptors' = IF accepted THEN newDescriptors ELSE capturedDescriptors
                /\ capturedImages' = IF accepted THEN newImages ELSE capturedImages
                /\ acceptedCaptures' = IF accepted THEN Append(acceptedCaptures, descriptor)
                                       ELSE acceptedCaptures
                /\ isFaceAligned' = IF accepted THEN FALSE ELSE isFaceAligned
                /\ alignedTime' = 0
                /\ cameraActive' = IF complete THEN FALSE ELSE cameraActive
                /\ step' = IF complete THEN "media" ELSE step
                /\ isCapturing' = FALSE
           ELSE UNCHANGED <<capturedDescriptors, capturedImages, acceptedCaptures,
                            isFaceAligned, alignedTime, cameraActive, step, isCapturing>>
  /\ sinceAttempt' = 0
  /\ UNCHANGED <<matchVars, sideVars, clockVars, loopVars, simpleVars, editVars, regOpen, regName,
                 autoCapturing, registered, closedBy, dwellLost>>

\* captureDescriptor rejects (detectSingleFace throws): handleCapture has no
\* try around the await, so its promise rejects there and none of the
\* statements after the await runs.
CaptureRejects ==
  /\ regCapture # <<>>
  /\ regCapture' = Tail(regCapture)
  /\ UNCHANGED <<matchVars, sideVars, clockVars, loopVars, simpleVars, editVars, regOpen, step, regName,
                 capturedDescriptors, capturedImages, isCapturing, autoCapturing,
                 cameraActive, isFaceAligned, alignedTime, lockoutTimer, registered,
                 closedBy, acceptedCaptures, dwellLost, sinceAttempt>>

\* The 800 ms timer fires: setAutoCapturing(false).
LockoutEnds ==
  /\ lockoutTimer
  /\ lockoutTimer' = FALSE
  /\ autoCapturing' = IF regOpen THEN FALSE ELSE autoCapturing
  /\ sinceAttempt' = IF sinceAttempt < LockoutMs THEN LockoutMs ELSE sinceAttempt
  /\ UNCHANGED <<matchVars, sideVars, clockVars, loopVars, simpleVars, editVars, regOpen, step, regName,
                 capturedDescriptors, capturedImages, isCapturing, cameraActive,
                 isFaceAligned, alignedTime, regCapture, registered, closedBy,
                 acceptedCaptures, dwellLost>>

\* handleRegister, the button of the media step: onRegister(person); onClose().
HandleRegister ==
  /\ regOpen /\ step = "media"
  /\ IF Len(capturedDescriptors) = 0 \/ Len(capturedImages) = 0
     THEN UNCHANGED <<regOpen, registered, closedBy>>
     ELSE /\ registered' = Append(registered, [name |-> regName,
                                               descriptors |-> capturedDescriptors,
                                               imageDataUrl |-> capturedImages[1]])
          /\ regOpen' = FALSE
          /\ closedBy' = "register"
  /\ UNCHANGED <<matchVars, sideVars, clockVars, loopVars, simpleVars, editVars, step, regName,
                 capturedDescriptors, capturedImages, isCapturing, autoCapturing,
                 cameraActive, isFaceAligned, alignedTime, regCapture, lockoutTimer,
                 acceptedCaptures, dwellLost, sinceAttempt>>

\* The X button: onClose(), and the dialog is unmounted.
RegClose ==
  /\ regOpen
  /\ regOpen' = FALSE
  /\ closedBy' = "close"
  /\ registered' = CloseButton(registered, [name |-> regName,
                                            descriptors |-> capturedDescriptors,
                                            imageDataUrl |-> Null])
  /\ UNCHANGED <<matchVars, sideVars, clockVars, loopVars, simpleVars, editVars, step, regName,
                 capturedDescriptors, capturedImages, isCapturing, autoCapturing,
                 cameraActive, isFaceAligned, alignedTime, regCapture, lockoutTimer,
                 acceptedCaptures, dwellLost, sinceAttempt>>

RegInit ==
  /\ registeredPeople = <<>>
  /\ detection = NoFace
  /\ result = NoResult
  /\ ClockIdle /\ LoopIdle /\ SimpleIdle /\ RegIdle /\ EditIdle /\ SideIdle

RegNext ==
  \/ \E n \in RegNames : SetName(n)
  \/ Continue
  \/ RegCameraStarts
  \/ \E aligned \in BOOLEAN : FaceTracked(aligned)
  \/ AlignTick
  \/ \E o \in CaptureOutcomes : CaptureResolves(o[1], o[2])
  \/ CaptureRejects
  \/ LockoutEnds
  \/ HandleRegister
  \/ RegClose

SpecReg == RegInit /\ [][RegNext]_vars

---------------------------------------------------------------------------
(* PersonEdit: one edit dialog of a registered person.  The name and the   *)
(* media inputs stay out of the model; the name is not blank.              *)

\* person.descriptors of the person being edited: a sample no recapture of
\* the model yields.
OriginalDescriptors == << <<3, 4>> >>

\* The Recapturar button: startRecapture.
StartRecapture ==
  /\ editOpen /\ ~isRecapturing
  /\ editImages' = <<>>
  /\ editDescriptors' = <<>>
  /\ isRecapturing' = TRUE
  /\ UNCHANGED <<matchVars, sideVars, clockVars, loopVars, simpleVars, regVars, editOpen,
                 editIsCapturing, editCameraActive, editCapture, editSaved>>

\* The camera effect: startCamera resolved with success; setCameraActive(true).
EditCameraStarts ==
  /\ editOpen /\ isRecapturing /\ ~editCameraActive
  /\ editCameraActive' = TRUE
  /\ UNCHANGED <<matchVars, sideVars, clockVars, loopVars, simpleVars, regVars, editOpen, isRecapturing,
                 editDescriptors, editImages, editIsCapturing, editCapture, editSaved>>

\* The capture button (disabled while isCapturing): handleCapture runs up to
\* its await.  Without a running camera captureDescriptor has no frame.
EditCapture ==
  /\ editOpen /\ isRecapturing /\ ~editIsCapturing
  /\ editIsCapturing' = TRUE
  /\ editCapture' = Append(editCapture, [descriptors |-> editDescriptors,
                                         images |-> editImages,
                                         camera |-> editCameraActive])
  /\ UNCHANGED <<matchVars, sideVars, clockVars, loopVars, simpleVars, regVars, editOpen, isRecapturing,
                 editDescriptors, editImages, editCameraActive, editSaved>>

\* captureDescriptor resolves; the rest of handleCapture runs.  In a closed
\* dialog the state setters do nothing.
EditCaptureResolves(descriptor, image) ==
  /\ editCapture # <<>>
  /\ descriptor # NoDescriptor => Head(editCapture).camera
  /\ LET closure == Head(editCapture)
         accepted == descriptor # NoDescriptor /\ image # Null
         newDescriptors == Append(closure.descriptors, descriptor)
         newImages == Append(closure.images, image)
         complete == accepted /\ CaptureComplete(newDescriptors)
     IN /\ editCapture' = Tail(editCapture)
        /\ IF editOpen
           THEN /\ editDescriptors' = IF accepted THEN newDescriptors ELSE editDescriptors
                /\ editImages' = IF accepted THEN newImages ELSE editImages
                /\ editCameraActive' = IF complete THEN FALSE ELSE editCameraActive
                /\ isRecapturing' = IF complete THEN FALSE ELSE isRecapturing
                /\ editIsCapturing' = FALSE
           ELSE UNCHANGED <<editDescriptors, editImages, editCameraActive, isRecapturing,
                            editIsCapturing>>
  /\ UNCHANGED <<matchVars, sideVars, clockVars, loopVars, simpleVars, regVars, editOpen, editSaved>>

\* The X button next to the capture button: cancelRecapture.
CancelRecapture ==
  /\ editOpen /\ isRecapturing
  /\ editCameraActive' = FALSE
  /\ editImages' = <<>>
  /\ editDescriptors' = <<>>
  /\ isRecapturing' = FALSE
  /\ UNCHANGED <<matchVars, sideVars, clockVars, loopVars, simpleVars, regVars, editOpen,
                 editIsCapturing, editCapture, editSaved>>

\* ...(capturedDescriptors.length > 0 && { descriptors: capturedDescriptors, ... })
SavedDescriptors(original, captured) == IF Len(captured) > 0 THEN captured ELSE original

\* The Guardar button (disabled while isRecapturing): handleSave calls
\* onSave(updatedPerson) and onClose().
HandleSave ==
  /\ editOpen /\ ~isRecapturing
  /\ editSaved' = Append(editSaved, SavedDescriptors(OriginalDescriptors, editDescriptors))
  /\ editOpen' = FALSE
  /\ UNCHANGED <<matchVars, sideVars, clockVars, loopVars, simpleVars, regVars, isRecapturing,
                 editDescriptors, editImages, editIsCapturing, editCameraActive, editCapture>>

\* The X button of the dialog: onClose().
EditClose ==
  /\ editOpen
  /\ editOpen' = FALSE
  /\ UNCHANGED <<matchVars, sideVars, clockVars, loopVars, simpleVars, regVars, isRecapturing,
                 editDescriptors, editImages, editIsCapturing, editCameraActive,
                 editCapture, editSaved>>

EditInit ==
  /\ registeredPeople = <<>>
  /\ detection = NoFace
  /\ result = NoResult
  /\ ClockIdle /\ LoopIdle /\ SimpleIdle /\ RegIdle /\ EditIdle /\ SideIdle

EditNext ==
  \/ StartRecapture
  \/ EditCameraStarts
  \/ EditCapture
  \/ \E o \in CaptureOutcomes : EditCaptureResolves(o[1], o[2])
  \/ CancelRecapture
  \/ HandleSave
  \/ EditClose

SpecEdit == EditInit /\ [][EditNext]_vars

---------------------------------------------------------------------------
(* PersonStorageContext (remote database and localStorage providers), Admin *)

\* Ids crypto.randomUUID() gives the registration dialog, and the one
\* gen_random_uuid() gives the row the Admin page inserts.
StoreIds == {"ana"}
ConfigId == "cfg"

\* URLs: '' (also null/undefined), data URLs, and the public URLs of uploads.
PresetSound == "/sounds/preset.mp3"
DataImage == "data:image/jpeg"
DataSound == "data:audio/mp3"
DataVideo == "data:video/mp4"
PublicImage == "supabase/face-images/profile.jpg"
PublicSound == "supabase/person-media/sound.mp3"
PublicVideo == "supabase/person-media/video.mp4"
AdminVideo == "supabase/person-media/videos/upload.mp4"

\* dataUrl.startsWith('data:')
IsDataUrl(u) == u \in {DataImage, DataSound, DataVideo}

\* a || b on URLs
Or(a, b) == IF a # NoUrl THEN a ELSE b

\* uploadToStorage: the public URL of the uploaded path, or null when the
\* upload fails.
uploadToStorage(bucket, path, ok) ==
  IF ~ok THEN NoUrl
  ELSE CASE path = "profile.jpg" -> PublicImage
         [] path = "sound.mp3" -> PublicSound
         [] OTHER -> PublicVideo

\* Array.from(d) and new Float32Array(d), element by element.
ArrayFrom(d) == [i \in 1..Len(d) |-> d[i]]
Float32ArrayOf(a) == [i \in 1..Len(a) |-> a[i]]

IdsOf(list) == { list[i].id : i \in 1..Len(list) }

\* The person handleRegister builds (preset sound, first capture as image).
NewPerson(id, video) ==
  [id |-> id, name |-> PersonNames[id], descriptors |-> << <<0, 0>> >>,
   soundUrl |-> PresetSound, soundData |-> NoUrl, videoData |-> video,
   imageDataUrl |-> DataImage]

NewPeople(id) == { NewPerson(id, DataVideo) }

NoStoredPerson ==
  [id |-> "", name |-> "", descriptors |-> <<>>, soundUrl |-> NoUrl, soundData |-> NoUrl,
   videoData |-> NoUrl, imageDataUrl |-> NoUrl]

\* The person PersonEdit's handleSave builds from p after a recapture.
Edits(p) ==
  { [p EXCEPT !.descriptors = << <<6, 0>> >>, !.imageDataUrl = DataImage] }

\* Which of a call's uploads succeed: all of them, or none (storage is down).
\* A call that uploads nothing has one outcome.
Uploads(person) ==
  { [image |-> ok, sound |-> ok, video |-> ok] :
      ok \in IF \E u \in {person.imageDataUrl, person.soundData, person.videoData} : IsDataUrl(u)
             THEN BOOLEAN ELSE {TRUE} }

UsedIds ==
  IdsOf(table) \cup IdsOf(localStorage.list) \cup IdsOf(peopleList) \cup IdsOf(requests)

Request(op, error, id, person, data) ==
  [op |-> op, error |-> error, id |-> id, person |-> person, data |-> data]

Reverse(s) == [i \in 1..Len(s) |-> s[Len(s) + 1 - i]]

\* loadPeople (remote): the rows, newest first, as RegisteredPerson values.
Restored(data) ==
  [i \in 1..Len(data) |->
     [id |-> data[i].id, name |-> data[i].name,
      descriptors |-> [j \in 1..Len(data[i].descriptors) |->
                         Float32ArrayOf(data[i].descriptors[j])],
      soundUrl |-> Or(data[i].sound_url, NoUrl), soundData |-> NoUrl,
      videoData |-> data[i].video_url, imageDataUrl |-> Or(data[i].image_url, NoUrl)]]

\* loadPeople (remote), the query: select * order by created_at desc.
RemoteLoadPeople(dbOk) ==
  /\ provider = "remote"
  /\ Len(requests) < MaxRequests
  /\ requests' = Append(requests, Request("load", ~dbOk, "", NoStoredPerson,
                                           IF dbOk THEN Reverse(table) ELSE <<>>))
  /\ lastMutation' = NoMutation
  /\ UNCHANGED <<provider, table, localStorage, peopleList, mediaConfig>>
  /\ UNCHANGED <<matchVars, clockVars, loopVars, simpleVars, dialogVars, cameraVars, loadVars>>

\* loadPeople (remote), after the await: setPeople(restored) unless error.
LoadResolves(k) ==
  /\ requests[k].op = "load"
  /\ peopleList' = IF requests[k].error THEN peopleList ELSE Restored(requests[k].data)
  /\ requests' = RemoveAt(requests, k)
  /\ lastMutation' = NoMutation
  /\ UNCHANGED <<provider, table, localStorage, mediaConfig>>
  /\ UNCHANGED <<matchVars, clockVars, loopVars, simpleVars, dialogVars, cameraVars, loadVars>>

\* addPerson (remote) up to the insert: the uploads, then the row is inserted
\* (id is the primary key) or the insert fails.
RemoteAddPerson(person, up, dbOk) ==
  /\ provider = "remote"
  /\ Len(requests) < MaxRequests
  /\ person.id \notin UsedIds
  /\ LET imageUrl == IF person.imageDataUrl # NoUrl
                      THEN uploadToStorage("face-images", "profile.jpg", up.image)
                      ELSE NoUrl
         soundUrl == IF person.soundData # NoUrl
                      THEN Or(uploadToStorage("person-media", "sound.mp3", up.sound),
                              person.soundUrl)
                      ELSE person.soundUrl
         videoUrl == IF person.videoData # NoUrl
                      THEN uploadToStorage("person-media", "video.mp4", up.video)
                      ELSE NoUrl
         row == [id |-> person.id, name |-> person.name,
                 descriptors |-> [j \in 1..Len(person.descriptors) |->
                                    ArrayFrom(person.descriptors[j])],
                 image_url |-> imageUrl, sound_url |-> soundUrl, video_url |-> videoUrl]
         error == ~dbOk \/ person.id \in IdsOf(table)
         cloudPerson == [person EXCEPT !.imageDataUrl = Or(imageUrl, person.imageDataUrl),
                                       !.soundUrl = Or(soundUrl, person.soundUrl)]
     IN /\ table' = IF error THEN table ELSE Append(table, row)
        /\ requests' = Append(requests, Request("add", error, person.id, cloudPerson, <<>>))
  /\ lastMutation' = NoMutation
  /\ UNCHANGED <<provider, localStorage, peopleList, mediaConfig>>
  /\ UNCHANGED <<matchVars, clockVars, loopVars, simpleVars, dialogVars, cameraVars, loadVars>>

\* addPerson (remote), after the await: return on error, else
\* setPeople(prev => [cloudPerson, ...prev]).
AddResolves(k) ==
  /\ requests[k].op = "add"
  /\ peopleList' = IF requests[k].error THEN peopleList
                   ELSE <<requests[k].person>> \o peopleList
  /\ requests' = RemoveAt(requests, k)
  /\ lastMutation' = [op |-> "add", id |-> requests[k].id, ok |-> ~requests[k].error]
  /\ UNCHANGED <<provider, table, localStorage, mediaConfig>>
  /\ UNCHANGED <<matchVars, clockVars, loopVars, simpleVars, dialogVars, cameraVars, loadVars>>

\* removePerson (remote) up to the delete.
RemoteRemovePerson(id, dbOk) ==
  /\ provider = "remote"
  /\ Len(requests) < MaxRequests
  /\ id \in IdsOf(peopleList)
  /\ table' = IF dbOk THEN SelectSeq(table, LAMBDA row : row.id # id) ELSE table
  /\ requests' = Append(requests, Request("remove", ~dbOk, id, NoStoredPerson, <<>>))
  /\ lastMutation' = NoMutation
  /\ UNCHANGED <<provider, localStorage, peopleList, mediaConfig>>
  /\ UNCHANGED <<matchVars, clockVars, loopVars, simpleVars, dialogVars, cameraVars, loadVars>>

\* removePerson (remote), after the await: setPeople(prev => prev.filter(...)).
RemoveResolves(k) ==
  /\ requests[k].op = "remove"
  /\ peopleList' = IF requests[k].error THEN peopleList
                   ELSE SelectSeq(peopleList, LAMBDA p : p.id # requests[k].id)
  /\ requests' = RemoveAt(requests, k)
  /\ lastMutation' = [op |-> "remove", id |-> requests[k].id, ok |-> ~requests[k].error]
  /\ UNCHANGED <<provider, table, localStorage, mediaConfig>>
  /\ UNCHANGED <<matchVars, clockVars, loopVars, simpleVars, dialogVars, cameraVars, loadVars>>

\* updatePerson (remote) up to the update of the row with the person's id.
RemoteUpdatePerson(updatedPerson, up, dbOk) ==
  /\ provider = "remote"
  /\ Len(requests) < MaxRequests
  /\ LET imageUrl == IF IsDataUrl(updatedPerson.imageDataUrl)
                      THEN Or(uploadToStorage("face-images", "profile.jpg", up.image),
                              updatedPerson.imageDataUrl)
                      ELSE updatedPerson.imageDataUrl
         soundUrl == IF IsDataUrl(updatedPerson.soundData)
                      THEN Or(uploadToStorage("person-media", "sound.mp3", up.sound),
                              updatedPerson.soundUrl)
                      ELSE updatedPerson.soundUrl
         updatedRow(row) ==
           [row EXCEPT !.name = updatedPerson.name,
                       !.descriptors = [j \in 1..Len(updatedPerson.descriptors) |->
                                          ArrayFrom(updatedPerson.descriptors[j])],
                       !.image_url = imageUrl, !.sound_url = soundUrl]
     IN /\ table' = IF dbOk
                    THEN [i \in 1..Len(table) |->
                            IF table[i].id = updatedPerson.id THEN updatedRow(table[i])
                            ELSE table[i]]
                    ELSE table
        /\ requests' = Append(requests,
                              Request("update", ~dbOk, updatedPerson.id,
                                      [updatedPerson EXCEPT !.imageDataUrl = imageUrl], <<>>))
  /\ lastMutation' = NoMutation
  /\ UNCHANGED <<provider, localStorage, peopleList, mediaConfig>>
  /\ UNCHANGED <<matchVars, clockVars, loopVars, simpleVars, dialogVars, cameraVars, loadVars>>

\* updatePerson (remote), after the await: setPeople(prev => prev.map(...)).
UpdateResolves(k) ==
  /\ requests[k].op = "update"
  /\ peopleList' = IF requests[k].error THEN peopleList
                   ELSE [i \in 1..Len(peopleList) |->
                           IF peopleList[i].id = requests[k].id THEN requests[k].person
                           ELSE peopleList[i]]
  /\ requests' = RemoveAt(requests, k)
  /\ lastMutation' = [op |-> "update", id |-> requests[k].id, ok |-> ~requests[k].error]
  /\ UNCHANGED <<provider, table, localStorage, mediaConfig>>
  /\ UNCHANGED <<matchVars, clockVars, loopVars, simpleVars, dialogVars, cameraVars, loadVars>>

\* savePeople (local): the list with its descriptors as plain arrays.
Serialized(newPeople) ==
  [i \in 1..Len(newPeople) |->
     [newPeople[i] EXCEPT !.descriptors =
        [j \in 1..Len(newPeople[i].descriptors) |-> ArrayFrom(newPeople[i].descriptors[j])]]]

\* savePeople (local): setItem, whose exception is caught and logged.
savePeople(newPeople, saved) ==
  IF saved THEN [item |-> TRUE, list |-> Serialized(newPeople)] ELSE localStorage

\* loadPeople (local): setPeople(restored) when the key holds an item.
LocalLoadPeople ==
  /\ provider = "local"
  /\ localStorage.item
  /\ peopleList' = [i \in 1..Len(localStorage.list) |->
                      [localStorage.list[i] EXCEPT !.descriptors =
                         [j \in 1..Len(localStorage.list[i].descriptors) |->
                            Float32ArrayOf(localStorage.list[i].descriptors[j])]]]
  /\ lastMutation' = NoMutation
  /\ UNCHANGED <<provider, table, localStorage, requests, mediaConfig>>
  /\ UNCHANGED <<matchVars, clockVars, loopVars, simpleVars, dialogVars, cameraVars, loadVars>>

\* addPerson (local): setPeople(prev => { savePeople([...prev, person]); ... }).
LocalAddPerson(person, saved) ==
  /\ provider = "local"
  /\ person.id \notin UsedIds
  /\ LET updated == Append(peopleList, person)
     IN /\ localStorage' = savePeople(updated, saved)
        /\ peopleList' = updated
  /\ lastMutation' = [op |-> "add", id |-> person.id, ok |-> saved]
  /\ UNCHANGED <<provider, table, requests, mediaConfig>>
  /\ UNCHANGED <<matchVars, clockVars, loopVars, simpleVars, dialogVars, cameraVars, loadVars>>

\* removePerson (local).
LocalRemovePerson(id, saved) ==
  /\ provider = "local"
  /\ id \in IdsOf(peopleList)
  /\ LET updated == SelectSeq(peopleList, LAMBDA p : p.id # id)
     IN /\ localStorage' = savePeople(updated, saved)
        /\ peopleList' = updated
  /\ lastMutation' = [op |-> "remove", id |-> id, ok |-> saved]
  /\ UNCHANGED <<provider, table, requests, mediaConfig>>
  /\ UNCHANGED <<matchVars, clockVars, loopVars, simpleVars, dialogVars, cameraVars, loadVars>>

\* updatePerson (local).
LocalUpdatePerson(updatedPerson, saved) ==
  /\ provider = "local"
  /\ LET updated == [i \in 1..Len(peopleList) |->
                       IF peopleList[i].id = updatedPerson.id THEN updatedPerson
                       ELSE peopleList[i]]
     IN /\ localStorage' = savePeople(updated, saved)
        /\ peopleList' = updated
  /\ lastMutation' = [op |-> "update", id |-> updatedPerson.id, ok |-> saved]
  /\ UNCHANGED <<provider, table, requests, mediaConfig>>
  /\ UNCHANGED <<matchVars, clockVars, loopVars, simpleVars, dialogVars, cameraVars, loadVars>>

\* Admin mounts and loadConfig reads one row (limit(1).single(), no order).
AdminLoadConfig(k) ==
  /\ provider = "remote"
  /\ mediaConfig' = [id |-> table[k].id, name |-> table[k].name,
                     videoUrl |-> table[k].video_url, soundUrl |-> table[k].sound_url]
  /\ lastMutation' = NoMutation
  /\ UNCHANGED <<provider, table, localStorage, peopleList, requests>>
  /\ UNCHANGED <<matchVars, clockVars, loopVars, simpleVars, dialogVars, cameraVars, loadVars>>

\* Admin's handleSave: update the loaded row, or insert a row without
\* descriptors when none was loaded. (A failed request changes nothing.)
AdminSave(videoFile) ==
  /\ provider = "remote"
  /\ LET videoUrl == IF videoFile THEN AdminVideo ELSE mediaConfig.videoUrl
         soundUrl == mediaConfig.soundUrl
     IN IF mediaConfig.id # ""
        THEN /\ table' = [i \in 1..Len(table) |->
                            IF table[i].id = mediaConfig.id
                            THEN [table[i] EXCEPT !.name = mediaConfig.name,
                                                  !.video_url = videoUrl,
                                                  !.sound_url = soundUrl]
                            ELSE table[i]]
             /\ UNCHANGED mediaConfig
        ELSE /\ ConfigId \notin UsedIds
             /\ table' = Append(table,
                                [id |-> ConfigId, name |-> mediaConfig.name,
                                 descriptors |-> <<>>, image_url |-> NoUrl,
                                 sound_url |-> soundUrl, video_url |-> videoUrl])
             /\ mediaConfig' = [id |-> ConfigId, name |-> mediaConfig.name,
                                videoUrl |-> videoUrl, soundUrl |-> soundUrl]
  /\ lastMutation' = NoMutation
  /\ UNCHANGED <<provider, localStorage, peopleList, requests>>
  /\ UNCHANGED <<matchVars, clockVars, loopVars, simpleVars, dialogVars, cameraVars, loadVars>>

StoreInit ==
  /\ registeredPeople = <<>>
  /\ detection = NoFace
  /\ result = NoResult
  /\ ClockIdle /\ LoopIdle /\ SimpleIdle /\ RegIdle /\ EditIdle
  /\ provider \in {"remote", "local"}
  /\ StoreEmpty
  /\ CameraEmpty /\ detectorBroken = FALSE /\ LoadIdle

StoreNext ==
  \/ \E dbOk \in BOOLEAN : RemoteLoadPeople(dbOk)
  \/ \E k \in 1..Len(requests) : LoadResolves(k)
  \/ \E id \in StoreIds : \E person \in NewPeople(id) :
       \E up \in Uploads(person) : \E dbOk \in BOOLEAN : RemoteAddPerson(person, up, dbOk)
  \/ \E k \in 1..Len(requests) : AddResolves(k)
  \/ \E id \in StoreIds : \E dbOk \in BOOLEAN : RemoteRemovePerson(id, dbOk)
  \/ \E k \in 1..Len(requests) : RemoveResolves(k)
  \/ \E i \in 1..Len(peopleList) : \E updatedPerson \in Edits(peopleList[i]) :
       \E up \in Uploads(updatedPerson) : \E dbOk \in BOOLEAN :
         RemoteUpdatePerson(updatedPerson, up, dbOk)
  \/ \E k \in 1..Len(requests) : UpdateResolves(k)
  \/ LocalLoadPeople
  \/ \E id \in StoreIds : \E person \in NewPeople(id) : \E saved \in BOOLEAN :
       LocalAddPerson(person, saved)
  \/ \E id \in StoreIds : \E saved \in BOOLEAN : LocalRemovePerson(id, saved)
  \/ \E i \in 1..Len(peopleList) : \E updatedPerson \in Edits(peopleList[i]) :
       \E saved \in BOOLEAN : LocalUpdatePerson(updatedPerson, saved)

SpecStore == StoreInit /\ [][StoreNext]_vars

\* The Admin page over the remote store, with the provider reloading.
AdminInit ==
  /\ registeredPeople = <<>>
  /\ detection = NoFace
  /\ result = NoResult
  /\ ClockIdle /\ LoopIdle /\ SimpleIdle /\ RegIdle /\ EditIdle
  /\ StoreIdle
  /\ CameraEmpty /\ detectorBroken = FALSE /\ LoadIdle

AdminNext ==
  \/ \E k \in 1..Len(table) : AdminLoadConfig(k)
  \/ \E videoFile \in BOOLEAN : AdminSave(videoFile)
  \/ \E dbOk \in BOOLEAN : RemoteLoadPeople(dbOk)
  \/ \E k \in 1..Len(requests) : LoadResolves(k)

SpecAdmin == AdminInit /\ [][AdminNext]_vars

---------------------------------------------------------------------------
(* startCamera, stopCamera, startDetection and the catch of detectFaces;
   the code is the same in useFaceDetection and useSimpleFaceDetection *)

ClearIntervalKeeps(active, id) == active

ClearIntervalStale(active, id) == IF id = 1 THEN active ELSE active \ {id}

\* clearInterval(id)
ClearInterval(active, id) == active \ {id}

\* startCamera up to the await of getUserMedia.
StartCamera ==
  /\ hookMounted
  /\ cameraRequests = 0
  /\ streamsMade < MaxStreams
  /\ cameraRequests' = cameraRequests + 1
  /\ viewActive' = TRUE
  /\ lastStop' = NoStop
  /\ skipped' = FALSE
  /\ UNCHANGED <<videoRef, srcObject, liveStreams, streamsMade, detectionIntervalRef, timers,
                 timersMade, cameraPasses, hookError, detectorBroken, detectionFailed>>
  /\ UNCHANGED <<matchVars, clockVars, loopVars, simpleVars, dialogVars, storeVars, loadVars, hookMounted>>

\* startCamera after the await: the stream is attached, or the error is set.
GetUserMediaResolves(granted) ==
  /\ cameraRequests > 0
  /\ cameraRequests' = cameraRequests - 1
  /\ IF granted
     THEN /\ streamsMade' = streamsMade + 1
          /\ liveStreams' = liveStreams \cup {streamsMade + 1}
          /\ srcObject' = streamsMade + 1
          /\ videoRef' = TRUE
          /\ UNCHANGED hookError
     ELSE /\ hookError' = "No se pudo acceder a la camara"
          /\ UNCHANGED <<streamsMade, liveStreams, srcObject, videoRef>>
  /\ lastStop' = NoStop
  /\ skipped' = FALSE
  /\ UNCHANGED <<detectionIntervalRef, timers, timersMade, cameraPasses, detectorBroken,
                 detectionFailed>>
  /\ UNCHANGED <<matchVars, clockVars, loopVars, simpleVars, dialogVars, storeVars, loadVars, viewActive, hookMounted>>

\* stopCamera: stop the tracks of the attached stream and detach it; clear
\* the interval of the ref.
StopCamera ==
  /\ hookMounted
  /\ IF videoRef /\ srcObject # 0
     THEN /\ liveStreams' = liveStreams \ {srcObject}
          /\ srcObject' = 0
     ELSE UNCHANGED <<liveStreams, srcObject>>
  /\ IF detectionIntervalRef # 0
     THEN /\ timers' = ClearInterval(timers, detectionIntervalRef)
          /\ detectionIntervalRef' = 0
     ELSE UNCHANGED <<timers, detectionIntervalRef>>
  /\ lastStop' = [called |-> TRUE, stream |-> srcObject, timer |-> detectionIntervalRef]
  /\ skipped' = FALSE
  /\ viewActive' = FALSE
  /\ UNCHANGED <<videoRef, streamsMade, cameraRequests, timersMade, cameraPasses, hookError,
                 detectorBroken, detectionFailed>>
  /\ UNCHANGED <<matchVars, clockVars, loopVars, simpleVars, dialogVars, storeVars, loadVars, hookMounted>>

\* startDetection: clear the interval of the ref, set a new one.
StartDetection ==
  /\ hookMounted
  /\ timersMade < MaxTimers
  /\ timersMade' = timersMade + 1
  /\ timers' = (IF detectionIntervalRef # 0 THEN ClearInterval(timers, detectionIntervalRef)
                ELSE timers) \cup {timersMade + 1}
  /\ detectionIntervalRef' = timersMade + 1
  /\ lastStop' = NoStop
  /\ skipped' = FALSE
  /\ UNCHANGED <<videoRef, srcObject, liveStreams, streamsMade, cameraRequests, cameraPasses,
                 hookError, detectorBroken, detectionFailed>>
  /\ UNCHANGED <<matchVars, clockVars, loopVars, simpleVars, dialogVars, storeVars, loadVars, viewActive, hookMounted>>

FrameReadyAlways(ref, stream) == TRUE

\* The guards of detectFaces: a video element is set and it has a frame
\* (readyState >= 2, videoWidth > 0), which it has only from an attached stream.
FrameReady(ref, stream) == ref /\ stream # 0

\* An active interval fires detectFaces: return at the guards, else await
\* the detector.
CameraTick ==
  /\ timers # {}
  /\ cameraPasses < MaxPasses
  /\ cameraPasses' = IF FrameReady(videoRef, srcObject) THEN cameraPasses + 1 ELSE cameraPasses
  /\ lastStop' = NoStop
  /\ skipped' = ~FrameReady(videoRef, srcObject)
  /\ UNCHANGED <<videoRef, srcObject, liveStreams, streamsMade, cameraRequests,
                 detectionIntervalRef, timers, timersMade, hookError, detectorBroken,
                 detectionFailed>>
  /\ UNCHANGED <<matchVars, clockVars, loopVars, simpleVars, dialogVars, storeVars, loadVars, viewActive, hookMounted>>

\* detectFaces after the await: the results are handled, or the rejection is
\* caught and logged (console.error only).
PassReturns ==
  /\ cameraPasses > 0
  /\ cameraPasses' = cameraPasses - 1
  /\ detectionFailed' = (detectionFailed \/ detectorBroken)
  /\ lastStop' = NoStop
  /\ skipped' = FALSE
  /\ UNCHANGED <<videoRef, srcObject, liveStreams, streamsMade, cameraRequests,
                 detectionIntervalRef, timers, timersMade, hookError, detectorBroken>>
  /\ UNCHANGED <<matchVars, clockVars, loopVars, simpleVars, dialogVars, storeVars, loadVars, viewActive, hookMounted>>

\* The component using the hook is unmounted: the hook's cleanup effect clears
\* the interval of the ref and nulls the ref.  Calls already awaiting go on.
HookUnmount ==
  /\ hookMounted
  /\ hookMounted' = FALSE
  /\ IF detectionIntervalRef # 0
     THEN /\ timers' = ClearInterval(timers, detectionIntervalRef)
          /\ detectionIntervalRef' = 0
     ELSE UNCHANGED <<timers, detectionIntervalRef>>
  /\ lastStop' = NoStop
  /\ skipped' = FALSE
  /\ UNCHANGED <<videoRef, srcObject, liveStreams, streamsMade, cameraRequests, timersMade,
                 cameraPasses, hookError, detectorBroken, detectionFailed>>
  /\ UNCHANGED <<matchVars, clockVars, loopVars, simpleVars, dialogVars, storeVars, loadVars, viewActive>>

CameraInit ==
  /\ registeredPeople = <<>>
  /\ detection = NoFace
  /\ result = NoResult
  /\ ClockIdle /\ LoopIdle /\ SimpleIdle /\ RegIdle /\ EditIdle
  /\ StoreIdle
  /\ CameraEmpty
  /\ LoadIdle
  /\ detectorBroken \in BOOLEAN

CameraNext ==
  \/ StartCamera
  \/ \E granted \in BOOLEAN : GetUserMediaResolves(granted)
  \/ StopCamera
  \/ StartDetection
  \/ CameraTick
  \/ PassReturns
  \/ HookUnmount

SpecCamera == CameraInit /\ [][CameraNext]_vars

---------------------------------------------------------------------------
(* Model loading: loadFaceModels of each hook module and loadModels of each
   hook instance.  A load promise is "pending" until the network answers, and
   then "fulfilled" or "rejected" for good. *)

JoinsNever(loading, promise) == FALSE

\* loadFaceModels: if (modelsLoading && modelLoadPromise) return modelLoadPromise
Joins(loading, promise) == loading /\ promise # 0

ErrorOf(m) ==
  IF m = "useFaceDetection"
  THEN "Error al cargar los modelos de deteccion facial"
  ELSE "Error al cargar el modelo de deteccion"

\* A component calls the hook for the first time: useState(modelsLoaded),
\* useState(!modelsLoaded), useState(null).
HookMounts(h) ==
  /\ ~hooks[h].mounted
  /\ hooks' = [hooks EXCEPT ![h] =
                 [mounted |-> TRUE,
                  isModelLoaded |-> modelsLoaded[ModuleOf(h)],
                  isLoading |-> ~modelsLoaded[ModuleOf(h)],
                  error |-> Null, awaiting |-> <<>>, calls |-> 0]]
  /\ UNCHANGED <<modelsLoaded, modelsLoading, modelLoadPromise, promises>>
  /\ UNCHANGED <<matchVars, clockVars, loopVars, simpleVars, dialogVars, storeVars, cameraVars>>

\* loadModels up to its await, loadFaceModels included: the call returns at
\* once when the models are loaded, joins the promise the module holds, or
\* starts the load and holds its promise.
LoadModels(h) ==
  LET m == ModuleOf(h) IN
  /\ hooks[h].mounted
  /\ hooks[h].calls < MaxCalls
  /\ IF modelsLoaded[m]
     THEN /\ hooks' = [hooks EXCEPT ![h].isModelLoaded = TRUE,
                                    ![h].isLoading = FALSE,
                                    ![h].calls = @ + 1]
          /\ UNCHANGED <<modelsLoading, modelLoadPromise, promises>>
     ELSE IF Joins(modelsLoading[m], modelLoadPromise[m])
     THEN /\ hooks' = [hooks EXCEPT ![h].isLoading = TRUE,
                                    ![h].error = Null,
                                    ![h].awaiting = Append(@, modelLoadPromise[m]),
                                    ![h].calls = @ + 1]
          /\ UNCHANGED <<modelsLoading, modelLoadPromise, promises>>
     ELSE /\ Len(promises[m]) < MaxLoads
          /\ modelsLoading' = [modelsLoading EXCEPT ![m] = TRUE]
          /\ promises' = [promises EXCEPT ![m] = Append(@, "pending")]
          /\ modelLoadPromise' = [modelLoadPromise EXCEPT ![m] = Len(promises[m]) + 1]
          /\ hooks' = [hooks EXCEPT ![h].isLoading = TRUE,
                                    ![h].error = Null,
                                    ![h].awaiting = Append(@, Len(promises[m]) + 1),
                                    ![h].calls = @ + 1]
  /\ UNCHANGED modelsLoaded
  /\ UNCHANGED <<matchVars, clockVars, loopVars, simpleVars, dialogVars, storeVars, cameraVars>>

\* loadModels after its await: try, catch and finally.
LoadModelsResumes(h, k) ==
  LET m == ModuleOf(h)
      settled == promises[m][hooks[h].awaiting[k]]
  IN
  /\ settled # "pending"
  /\ hooks' = [hooks EXCEPT ![h].isModelLoaded = IF settled = "fulfilled" THEN TRUE ELSE @,
                            ![h].error = IF settled = "rejected" THEN ErrorOf(m) ELSE @,
                            ![h].isLoading = FALSE,
                            ![h].awaiting = RemoveAt(@, k)]
  /\ UNCHANGED <<modelsLoaded, modelsLoading, modelLoadPromise, promises>>
  /\ UNCHANGED <<matchVars, clockVars, loopVars, simpleVars, dialogVars, storeVars, cameraVars>>

\* The networks of a pending load are all read: the then callback runs.
NetsLoaded(m, p) ==
  /\ promises[m][p] = "pending"
  /\ promises' = [promises EXCEPT ![m][p] = "fulfilled"]
  /\ modelsLoaded' = [modelsLoaded EXCEPT ![m] = TRUE]
  /\ modelsLoading' = [modelsLoading EXCEPT ![m] = FALSE]
  /\ UNCHANGED <<modelLoadPromise, hooks>>
  /\ UNCHANGED <<matchVars, clockVars, loopVars, simpleVars, dialogVars, storeVars, cameraVars>>

\* loadFromUri of a pending load fails: the promise rejects, no callback runs.
NetsFail(m, p) ==
  /\ promises[m][p] = "pending"
  /\ promises' = [promises EXCEPT ![m][p] = "rejected"]
  /\ UNCHANGED <<modelsLoaded, modelsLoading, modelLoadPromise, hooks>>
  /\ UNCHANGED <<matchVars, clockVars, loopVars, simpleVars, dialogVars, storeVars, cameraVars>>

LoadInit ==
  /\ registeredPeople = <<>>
  /\ detection = NoFace
  /\ result = NoResult
  /\ ClockIdle /\ LoopIdle /\ SimpleIdle /\ RegIdle /\ EditIdle /\ SideIdle

SpecLoad ==
  /\ LoadInit
  /\ [][ \/ \E h \in HookInstances : HookMounts(h)
         \/ \E h \in HookInstances : LoadModels(h)
         \/ \E h \in HookInstances : \E k \in 1..Len(hooks[h].awaiting) : LoadModelsResumes(h, k)
         \/ \E m \in Modules : \E p \in 1..Len(promises[m]) : NetsLoaded(m, p)
         \/ \E m \in Modules : \E p \in 1..Len(promises[m]) : NetsFail(m, p) ]_vars

---------------------------------------------------------------------------
(* Claims about the match step, checked under SpecMatch *)

\* The distances of one identity to the detection, as a set.
DistancesTo(e, person) ==
  { euclideanDistance(e, person.descriptors[j]) : j \in 1..Len(person.descriptors) }

UnderThreshold(e, person) == \E d \in DistancesTo(e, person) : d < Threshold

\* The identity's nearest-sample distance (Infinity without samples).
NearestSample(e, person) ==
  IF DistancesTo(e, person) = {} THEN Infinity
  ELSE CHOOSE d \in DistancesTo(e, person) : \A d2 \in DistancesTo(e, person) : d <= d2

Matched == result # NoResult /\ result.personId # Null
Unmatched == result # NoResult /\ result.personId = Null
Gallery == { registeredPeople[i] : i \in 1..Len(registeredPeople) }

\* C1: a detection is reported as identity P only if P has a stored sample at
\* a distance strictly below 0.6 from it, and is reported unmatched only if no
\* identity has one; a distance of exactly 0.6 does not match.
C1_ThresholdDecides ==
  /\ Matched => \E p \in Gallery : p.id = result.personId /\ UnderThreshold(detection, p)
  /\ Unmatched => \A p \in Gallery : ~UnderThreshold(detection, p)

\* The boundary case: the nearest identity is exactly 0.6 away, and the
\* detection was reported unmatched.
C1_Witness ==
  /\ Unmatched
  /\ \E p \in Gallery : NearestSample(detection, p) = Threshold
  /\ \A p \in Gallery : NearestSample(detection, p) >= Threshold

\* C2: the reported identity has the globally smallest nearest-sample
\* distance: no identity of the gallery is strictly nearer, and the reported
\* confidence is the one of that nearest sample.
C2_NearestIdentityWins ==
  Matched =>
    \E p \in Gallery :
      /\ p.id = result.personId
      /\ result.confidence = (Scale - NearestSample(detection, p)) * 100
      /\ \A q \in Gallery : NearestSample(detection, q) >= NearestSample(detection, p)

\* Two identities under the threshold, the later one strictly nearer only
\* through its second sample, and the later one reported.
C2_Witness ==
  /\ Matched
  /\ Len(registeredPeople) >= 2
  /\ result.personId = registeredPeople[2].id
  /\ UnderThreshold(detection, registeredPeople[1])
  /\ Len(registeredPeople[2].descriptors) >= 2
  /\ euclideanDistance(detection, registeredPeople[2].descriptors[1])
       >= NearestSample(detection, registeredPeople[1])
  /\ NearestSample(detection, registeredPeople[2])
       < NearestSample(detection, registeredPeople[1])

---------------------------------------------------------------------------
(* Claims about the detection loop, checked under SpecLoop *)

\* A step in which a detectFaces pass ends; delivered' and played' are its.
PassEnds == Len(passes') < Len(passes)

\* The identities the ending pass reported as matched.
MatchedIds(results) ==
  { results[i].personId : i \in { j \in 1..Len(results) : results[j].personId # Null } }

PlayedIds(ids) == { ids[i] : i \in 1..Len(ids) }

\* C3: with the sound of identity I last triggered at t0, a pass that matches
\* I at a time t in (t0, t0 + 30000] plays nothing for I and leaves I's
\* timestamp at t0; a pass that matches I at t > t0 + 30000 plays I's sound
\* and sets I's timestamp to t.
C3_Cooldown ==
  [][ PassEnds =>
        \A id \in MatchedIds(delivered') \cap DOMAIN lastPlayedRef :
          LET t0 == lastPlayedRef[id]
          IN /\ (t0 < now /\ now <= t0 + Cooldown) =>
                  (id \notin PlayedIds(played') /\ lastPlayedRef'[id] = t0)
             /\ now > t0 + Cooldown =>
                  (id \in PlayedIds(played') /\ lastPlayedRef'[id] = now) ]_vars

\* The window's last instant: Ana was matched exactly 30000 ms after her
\* sound was triggered, and nothing was played.
C3_Witness ==
  /\ "ana" \in DOMAIN lastPlayedRef
  /\ now = lastPlayedRef["ana"] + Cooldown
  /\ "ana" \in MatchedIds(delivered)
  /\ played = <<>>

\* C9: at most one detectFaces pass is in flight at any time.
C9_OnePassInFlight == Len(passes) <= 1

\* C10: a welcome video opens for an identity only if none was opened for it
\* before or the last one was opened more than 30000 ms ago.
C10_VideoOncePerWindow ==
  [][ (videoToPlay = Null /\ videoToPlay' # Null) =>
        \/ videoToPlay' \notin DOMAIN lastVideoAt
        \/ now - lastVideoAt[videoToPlay'] > Cooldown ]_vars

---------------------------------------------------------------------------
(* Claims about the global gate, checked under SpecSimple *)

\* C4: between two calls of resetPlayingState, onPlayMedia is called at most
\* once, however many passes detect a face and however they overlap.
C4_GateExclusive == playsSinceReset <= 1

\* Play was triggered once, and a pass that had started before the trigger
\* detected a face after it and was stopped by the flag.
C4_Witness == playsSinceReset = 1 /\ gateHeld /\ isPlayingRef

\* C5: more than 30000 ms after the last trigger, with the media over (no
\* MediaPlayer rendered), the playing flag is clear, so that a detected face
\* triggers play again.
C5_FlagCleared ==
  (simpleMounted /\ ~isPlayingMedia /\ now - simpleLastPlayedRef > Cooldown) => ~isPlayingRef

---------------------------------------------------------------------------
(* Claims about the capture dialogs, checked under SpecReg and SpecEdit *)

\* C6: the registration dialog is in the media step exactly when 5 capture
\* events have been accepted, never more; with fewer it is still in an
\* earlier step; and a registered person carries exactly those 5 descriptors.
C6_EnrollmentComplete ==
  /\ (step = "media") <=> (Len(acceptedCaptures) = REQUIRED_CAPTURES)
  /\ Len(acceptedCaptures) <= REQUIRED_CAPTURES
  /\ \A i \in 1..Len(registered) :
       /\ registered[i].descriptors = acceptedCaptures
       /\ Len(registered[i].descriptors) = REQUIRED_CAPTURES

\* A person was registered with 5 descriptors, not all the same.
C6_Witness ==
  /\ Len(registered) = 1
  /\ Len(registered[1].descriptors) = REQUIRED_CAPTURES
  /\ registered[1].descriptors[1] # registered[1].descriptors[REQUIRED_CAPTURES]

\* C7: the descriptors PersonEdit saves are the person's original ones or a
\* complete set of 5 new ones, never a partial set.
C7_NoPartialSave ==
  \A i \in 1..Len(editSaved) :
    editSaved[i] = OriginalDescriptors \/ Len(editSaved[i]) = REQUIRED_CAPTURES

\* C8: a registration dialog closed with its X button has never called
\* onRegister, whatever its step, its samples and its captures in flight.
C8_CloseRegistersNothing == closedBy = "close" => registered = <<>>

\* Closed in the capture step with samples accumulated and a capture in flight.
C8_Witness ==
  /\ closedBy = "close"
  /\ step = "capture"
  /\ Len(capturedDescriptors) >= 1
  /\ regCapture # <<>>

---------------------------------------------------------------------------
(* Claims about the first detection, checked under SpecEpoch *)

\* C11: an identity whose sound has never been triggered is triggered by its
\* first matched detection, whatever the clock reads (at t = 0 as well).
C11_FirstDetectionTriggers ==
  [][ PassEnds =>
        \A id \in MatchedIds(delivered') \ DOMAIN lastPlayedRef :
          id \in PlayedIds(played') /\ lastPlayedRef'[id] = now ]_vars

---------------------------------------------------------------------------
(* Further claims about the match step, checked under SpecMatch *)

\* The gallery without the identities that hold no descriptor.
WithDescriptors == SelectSeq(registeredPeople, LAMBDA p : Len(p.descriptors) > 0)

\* C12: an identity without descriptors is never the one reported, and the
\* result is the one the gallery without such identities gives.
C12_EmptyNeverWins ==
  result # NoResult =>
    /\ \A p \in Gallery : Len(p.descriptors) = 0 => result.personId # p.id
    /\ result = DetectionResultOf(BestMatch(detection, WithDescriptors))

\* The first identity holds no descriptor and the second one is reported.
C12_Witness ==
  /\ Matched
  /\ Len(registeredPeople) >= 2
  /\ Len(registeredPeople[1].descriptors) = 0
  /\ result.personId = registeredPeople[2].id

---------------------------------------------------------------------------
(* Claims about the gallery store, checked under SpecAdmin and SpecStore *)

\* C13: every identity in the store or in the in-memory gallery holds at
\* least one embedding.
C13_EmbeddingsNonEmpty ==
  /\ \A i \in 1..Len(table) : Len(table[i].descriptors) > 0
  /\ \A i \in 1..Len(localStorage.list) : Len(localStorage.list[i].descriptors) > 0
  /\ \A i \in 1..Len(peopleList) : Len(peopleList[i].descriptors) > 0

\* C14: a step that completes a mutation whose persisting failed leaves the
\* in-memory gallery as it was.
C14_FailedPersistKeepsGallery ==
  [][ (lastMutation'.op # "none" /\ ~lastMutation'.ok) => peopleList' = peopleList ]_vars

\* C15: no two entries of the in-memory gallery share an id.
C15_UniqueIds ==
  \A i, j \in 1..Len(peopleList) : i # j => peopleList[i].id # peopleList[j].id

\* What a URL refers to: a data URL and the public URL of its upload refer to
\* the same medium.
Medium(u) ==
  CASE u \in {DataImage, PublicImage} -> "image"
    [] u \in {DataSound, PublicSound} -> "sound"
    [] u \in {DataVideo, PublicVideo} -> "video"
    [] OTHER -> u

\* The sound playPersonSound plays: soundData || soundUrl.
SoundSource(p) == Or(p.soundData, p.soundUrl)

SameIdentity(p, q) ==
  /\ p.id = q.id /\ p.name = q.name /\ p.descriptors = q.descriptors
  /\ Medium(SoundSource(p)) = Medium(SoundSource(q))
  /\ Medium(p.videoData) = Medium(q.videoData)
  /\ Medium(p.imageDataUrl) = Medium(q.imageDataUrl)

\* What loadPeople would give from a store.
Reloaded(prov, rows, item) ==
  IF prov = "remote" THEN Restored(Reverse(rows))
  ELSE [i \in 1..Len(item.list) |->
          [item.list[i] EXCEPT !.descriptors =
             [j \in 1..Len(item.list[i].descriptors) |->
                Float32ArrayOf(item.list[i].descriptors[j])]]]

\* C16: when addPerson or updatePerson completes with success and no other
\* call is in flight, reloading gives, for the mutated id, an identity with the
\* same id, name, embeddings and media as the in-memory one.
C16_SuccessIsPersisted ==
  [][ ( /\ lastMutation'.op \in {"add", "update"}
        /\ lastMutation'.ok
        /\ requests' = <<>> )
      => \A i \in 1..Len(peopleList') :
           peopleList'[i].id = lastMutation'.id =>
             \E j \in 1..Len(Reloaded(provider', table', localStorage')) :
               SameIdentity(peopleList'[i], Reloaded(provider', table', localStorage')[j]) ]_vars

---------------------------------------------------------------------------
(* Claims about the camera and the interval, checked under SpecCamera *)

\* C17: when stopCamera has just returned, no interval timer is active, the ref
\* holds none, no stream is attached, and the stream it found attached is no
\* longer live; and the only timer ever active is the one of the ref, which
\* startDetection alone sets, so no tick is due until it is called again.
C17_StopReleases ==
  /\ timers \subseteq {detectionIntervalRef}
  /\ lastStop.called =>
       /\ timers = {} /\ detectionIntervalRef = 0
       /\ srcObject = 0
       /\ lastStop.stream \notin liveStreams

\* stopCamera has just returned and had found a stream attached and an
\* interval running.
C17_Witness ==
  lastStop.called /\ lastStop.stream # 0 /\ lastStop.timer # 0

\* C18: once a pass has ended in a failure of the detector, the hook's error
\* state is set and no interval timer is active.
C18_FailureStopsLoop ==
  detectionFailed => (hookError # Null /\ timers = {})

---------------------------------------------------------------------------
(* Claims about several faces in one frame, checked under SpecGroup *)

\* The results of a pass whose identity has a welcome video, in detection order.
WithVideo(results) ==
  SelectSeq(results, LAMBDA r : /\ r.personId # Null
                                /\ FindPerson(registeredPeople, r.personId).videoData)

\* C19: when a pass ends while no video is shown (and none was shown when any
\* pass in flight started), the video shown afterwards is the one of the first
\* detection that qualifies for it; a later detection does not replace it.
C19_FirstFaceKeepsVideo ==
  [][ ( /\ PassEnds
        /\ videoToPlay = Null
        /\ \A k \in 1..Len(passes) : passes[k].video = Null
        /\ WithVideo(delivered') # <<>> )
      => videoToPlay' = WithVideo(delivered')[1].personId ]_vars

---------------------------------------------------------------------------
(* Claims about ties, checked under SpecMatch *)

\* The positions of the gallery whose nearest sample is at the least distance.
AtMinimum ==
  { i \in 1..Len(registeredPeople) :
      \A j \in 1..Len(registeredPeople) :
        NearestSample(detection, registeredPeople[i])
          <= NearestSample(detection, registeredPeople[j]) }

\* C20: the identity reported is the first one, in the order of the gallery
\* array, among those at the least distance.
C20_FirstWinsTies ==
  Matched =>
    \E i \in AtMinimum :
      /\ \A j \in AtMinimum : i <= j
      /\ result.personId = registeredPeople[i].id

\* Two identities are at the same least distance, under the threshold.
C20_Witness ==
  /\ Matched
  /\ Cardinality(AtMinimum) >= 2
  /\ result.personId = registeredPeople[1].id


\* ---------------------------------------------------------------------------
\* Claims on the purity of the match and on the per-identity cooldowns.

\* The state a pass starts from: the cooldown map as it stands, nothing
\* delivered or played yet.
PassStart == [map |-> lastPlayedRef, played |-> <<>>, delivered |-> <<>>, video |-> Unset]

IdentityOf(face) == DetectionResultOf(BestMatch(face, registeredPeople)).personId

\* C22: cooldowns are kept per identity.  For a frame with two faces, taken
\* in any reachable state of the loop: a timestamp changes only for an
\* identity whose sound was played in that tick, and a second face matched to
\* another identity than the first triggers exactly when its own window has
\* passed, whether or not the first face triggered.
C22_IndependentCooldowns ==
  \A a \in LoopFaces : \A b \in LoopFaces :
    \E out \in { DetectLoop(<<a, b>>, 1, registeredPeople, now, videoToPlay, PassStart) } :
      LET triggered == { out.played[i] : i \in 1..Len(out.played) }
      IN /\ \A id \in DOMAIN out.map :
              id \notin triggered =>
                /\ id \in DOMAIN lastPlayedRef
                /\ out.map[id] = lastPlayedRef[id]
         /\ (IdentityOf(b) # Null /\ IdentityOf(b) # IdentityOf(a)) =>
              (IdentityOf(b) \in triggered
                 <=> ShouldTrigger(now, LastPlayed(lastPlayedRef, IdentityOf(b))))

\* Bob was triggered one millisecond after Ana, inside Ana's window, and
\* Ana's timestamp is still her own.
C22_Witness ==
  /\ DOMAIN lastPlayedRef = {"ana", "bob"}
  /\ lastPlayedRef["bob"] = lastPlayedRef["ana"] + 1
  /\ played = <<"bob">>


\* C23: the last-triggered map holds at most one entry per identity of the
\* gallery, and every key is the id of an identity currently in the gallery.
C23_MapWithinGallery ==
  /\ DOMAIN lastPlayedRef \subseteq IdsOf(registeredPeople)
  /\ Cardinality(DOMAIN lastPlayedRef) <= Len(registeredPeople)


\* ---------------------------------------------------------------------------
\* Claims on malformed detections and on the empty gallery.

\* The face in front of the camera has another length than a stored sample.
Malformed ==
  \E i \in 1..Len(registeredPeople) : \E j \in 1..Len(registeredPeople[i].descriptors) :
    Len(registeredPeople[i].descriptors[j]) # Len(detection)

\* C24: a detection whose embedding has another length than a stored
\* embedding is rejected, not matched.  In a frame that holds Ana's face and
\* then the malformed one, the pass delivers Ana's result at most and nothing
\* for the malformed detection; no sound and no video other than Ana's is
\* started, no cooldown entry other than Ana's changes, and the gallery stays
\* as it was.
C24_MalformedRejected ==
  [][ (Malformed /\ PassEnds) =>
        /\ delivered' \in { <<>>, << DetectionResultOf(BestMatch(<<0, 0>>, registeredPeople)) >> }
        /\ played' \in { <<>>, <<"ana">> }
        /\ videoToPlay' \in { videoToPlay, "ana" }
        /\ \A id \in DOMAIN lastPlayedRef' :
              id # "ana" => id \in DOMAIN lastPlayedRef /\ lastPlayedRef'[id] = lastPlayedRef[id]
        /\ registeredPeople' = registeredPeople ]_vars

\* A pass has ended on such a frame: Ana's sound was played and her result
\* alone was delivered.
C24_Witness ==
  /\ Malformed
  /\ Len(delivered) = 1
  /\ played = <<"ana">>


\* One iteration of the loop for the detection at hand, started from the
\* cooldown map `map`, delivers `result` alone, plays nothing, opens no video
\* and returns the map as it was.
NothingTriggered(map) ==
  \E out \in { DetectOne(detection, registeredPeople, now, Null,
                         [map |-> map, played |-> <<>>, delivered |-> <<>>, video |-> Unset]) } :
    /\ out.delivered = <<result>>
    /\ out.played = <<>>
    /\ out.video = Unset
    /\ out.map = map

\* C25: with an empty gallery every detection is unmatched, with personId
\* null, personName null and confidence 0; its iteration of the loop plays
\* nothing and leaves the cooldown map unchanged, be the map empty or not.
C25_EmptyGalleryUnmatched ==
  (registeredPeople = <<>> /\ detection # NoFace) =>
    /\ result = [personId |-> Null, personName |-> Null, confidence |-> 0]
    /\ NothingTriggered(lastPlayedRef)
    /\ NothingTriggered("ana" :> 0)

\* A face at Ana's sample was matched against the empty gallery.
C25_Witness ==
  /\ registeredPeople = <<>>
  /\ detection = <<0, 0>>
  /\ result.personId = Null


\* ---------------------------------------------------------------------------
\* Claim on the global gate of useSimpleFaceDetection.

\* onPlayMedia was called in this step.
PlayMediaCalled == playsSinceReset' = playsSinceReset + 1

\* C26: a pass of the simplified hook calls onPlayMedia exactly when a face
\* was detected, the media configuration it was started with is not null, the
\* playing flag is false and more than 30000 ms have passed since lastPlayed.
\* When it calls, lastPlayed is now and the flag is true; when it does not,
\* and when the detector fails, both are as before.
C26_GlobalGate ==
  [][ \A k \in 1..Len(simplePasses) :
        /\ \A faceDetected \in BOOLEAN :
             SimpleResume(k, faceDetected) =>
               /\ PlayMediaCalled <=>
                    (/\ faceDetected
                     /\ simplePasses[k].media # NoMedia
                     /\ ~isPlayingRef
                     /\ now - simpleLastPlayedRef > 30000)
               /\ PlayMediaCalled => (simpleLastPlayedRef' = now /\ isPlayingRef')
               /\ ~PlayMediaCalled =>
                    (simpleLastPlayedRef' = simpleLastPlayedRef /\ isPlayingRef' = isPlayingRef)
        /\ SimpleResumeError(k) =>
             /\ ~PlayMediaCalled
             /\ simpleLastPlayedRef' = simpleLastPlayedRef
             /\ isPlayingRef' = isPlayingRef ]_vars

\* onPlayMedia has just been called, after the clock had advanced by a whole
\* window and one millisecond: lastPlayed is now and the flag is set.
C26_Witness ==
  /\ playsSinceReset = 1
  /\ isPlayingRef
  /\ simpleLastPlayedRef = now
  /\ now = StartTime + Cooldown + 1


\* ---------------------------------------------------------------------------
\* Claims on the automatic capture of PersonRegistration.

\* handleCapture was called in this step.
CaptureStarts == Len(regCapture') > Len(regCapture)

\* C27: a capture starts only from the tick that takes the alignment timer
\* to 1500 ms, with the face aligned and no capture and no lockout active; the
\* timer only ever moves by one 100 ms increment or back to zero, so that tick
\* is the fifteenth in a row, and no capture starts from a lower value.
C27_CaptureAtFullDwell ==
  [][ /\ CaptureStarts =>
           /\ alignedTime + AlignStepMs = 1500
           /\ isFaceAligned /\ ~isCapturing /\ ~autoCapturing /\ ~lockoutTimer
           /\ step = "capture"
      /\ alignedTime' \in { alignedTime, 0, alignedTime + AlignStepMs }
      /\ alignedTime' < 1500 ]_vars

\* A capture started by the timer is waiting for its descriptor.
C27_Witness ==
  /\ regCapture # <<>>
  /\ isCapturing /\ autoCapturing
  /\ alignedTime = 0
  /\ capturedDescriptors = <<>>

\* C28: the alignment timer grows only while the face is aligned, and it is
\* zero whenever the face is not aligned: what was accumulated before the
\* alignment was lost is gone and the next capture needs the whole dwell.
C28_DwellResetsOnLoss ==
  [][ /\ alignedTime' > alignedTime => (isFaceAligned /\ isFaceAligned')
      /\ ~isFaceAligned' => alignedTime' = 0 ]_vars

\* The alignment was lost at 1400 ms, one tick before the capture, and the
\* timer has since grown again from zero to 100 ms.
C28_Witness ==
  /\ dwellLost = 1400
  /\ isFaceAligned
  /\ alignedTime = AlignStepMs

\* C29: while the 800 ms lockout timer of a finished attempt is pending no
\* capture starts and the alignment timer stays at zero, so a capture starts
\* at least 800 ms + 1500 ms after the attempt before it finished.
C29_LockoutHolds ==
  [][ /\ lockoutTimer => (~CaptureStarts /\ alignedTime' = 0)
      /\ (CaptureStarts /\ sinceAttempt >= 0) => sinceAttempt' >= 800 + 1500 ]_vars

\* The second capture has started, 2300 ms after the first one was accepted.
C29_Witness ==
  /\ regCapture # <<>>
  /\ Len(acceptedCaptures) = 1
  /\ sinceAttempt = 800 + 1500


\* C30: every step leaves both lists alone or appends one descriptor to the
\* one and one snapshot to the other; the two lists always have the same
\* length, and it never exceeds 5.
C30_ListsInStep ==
  [][ /\ \/ /\ capturedDescriptors' = capturedDescriptors
            /\ capturedImages' = capturedImages
         \/ /\ Len(capturedDescriptors') = Len(capturedDescriptors) + 1
            /\ Len(capturedImages') = Len(capturedImages) + 1
            /\ SubSeq(capturedDescriptors', 1, Len(capturedDescriptors)) = capturedDescriptors
            /\ SubSeq(capturedImages', 1, Len(capturedImages)) = capturedImages
      /\ Len(capturedDescriptors') = Len(capturedImages')
      /\ Len(capturedDescriptors') <= 5 ]_vars

\* A capture attempt has just finished and its lockout is pending: both
\* lists hold four entries.
C30_Witness ==
  /\ Len(capturedDescriptors) = 4
  /\ Len(capturedImages) = 4
  /\ lockoutTimer
  /\ sinceAttempt = 0
  /\ isFaceAligned


\* ---------------------------------------------------------------------------
\* Claims on frames with several faces and on restarts of the loop.

\* No identity occurs twice in the sequence of ids.
NoRepeat(ids) == \A i \in 1..Len(ids) : \A j \in 1..Len(ids) : ids[i] = ids[j] => i = j

\* C31: the faces of one frame are matched one by one and not deduplicated.
\* For a frame holding the same registered face twice, taken in any reachable
\* state, the pass delivers two matched results naming that identity and
\* plays its sound at most once, exactly when its window has passed; and no
\* pass that ends has played an identity twice.
C31_MatchedTwicePlayedOnce ==
  /\ \A a \in GroupFaces :
       \E out \in { DetectLoop(<<a, a>>, 1, registeredPeople, now, videoToPlay, PassStart) } :
         /\ Len(out.delivered) = 2
         /\ out.delivered[1] = DetectionResultOf(BestMatch(a, registeredPeople))
         /\ out.delivered[2] = out.delivered[1]
         /\ out.delivered[1].personId # Null
         /\ out.played = IF now - LastPlayed(lastPlayedRef, out.delivered[1].personId) > 30000
                          THEN << out.delivered[1].personId >> ELSE <<>>
  /\ NoRepeat(played)

\* A pass has ended on a frame with Ana's face twice: two results name Ana
\* and her sound was played once.
C31_Witness ==
  /\ Len(delivered) = 2
  /\ delivered[1].personId = "ana" /\ delivered[2].personId = "ana"
  /\ played = <<"ana">>


C33_RemovedStaysSilent ==
  [][ PassEnds =>
        /\ MatchedIds(delivered') \subseteq IdsOf(registeredPeople)
        /\ PlayedIds(played') \subseteq IdsOf(registeredPeople) ]_vars


\* C34: after stopCamera has returned and until detection is started again,
\* onPlayMedia is not called and the cooldown state is not written.
C34_StoppedStaysSilent ==
  [][ (simpleMounted /\ ~isCameraActive) =>
        /\ ~PlayMediaCalled
        /\ (simpleMounted' => simpleLastPlayedRef' = simpleLastPlayedRef) ]_vars


\* C35: in every state where the view is inactive and no startCamera call is
\* awaiting its stream, no stream with running tracks is attached to the
\* video element.
C35_InactiveHoldsNoStream ==
  (~viewActive /\ cameraRequests = 0) => ~(srcObject # 0 /\ srcObject \in liveStreams)


\* ---------------------------------------------------------------------------
\* Claim on failed capture attempts of PersonRegistration.

\* C36: every capture attempt clears isCapturing and autoCapturing in the
\* end: in an open dialog with no attempt awaiting its descriptor and no
\* lockout timer pending, both flags are clear, so a capture can start again.
C36_FlagsCleared ==
  (regOpen /\ regCapture = <<>> /\ ~lockoutTimer) => (~isCapturing /\ ~autoCapturing)


\* C37: at most one interval timer is active at any time, and it is the one
\* the ref holds: startDetection clears the timer of the ref before it sets a
\* new one, stopCamera and the unmount clear it and null the ref, and after
\* the unmount none is active.
C37_OneTimer ==
  /\ Cardinality(timers) <= 1
  /\ timers = IF detectionIntervalRef = 0 THEN {} ELSE {detectionIntervalRef}
  /\ ~hookMounted => timers = {}

\* startDetection has been called twice: the second timer alone is active.
C37_Witness ==
  /\ timersMade = 2
  /\ timers = {2}
  /\ detectionIntervalRef = 2
  /\ lastStop = NoStop /\ viewActive = FALSE


---------------------------------------------------------------------------
(* Claims about model loading, checked under SpecLoad *)

\* C39: model loading is single-flight.  Whatever hook instances call
\* loadModels and however the calls interleave, a module starts a load only
\* when none of its loads is pending or has succeeded, and its modelsLoaded
\* never goes from true back to false.
C39_SingleFlight ==
  [][ \A m \in Modules :
        /\ Len(promises'[m]) > Len(promises[m]) =>
             \A p \in 1..Len(promises[m]) : promises[m][p] \notin {"pending", "fulfilled"}
        /\ modelsLoaded[m] => modelsLoaded'[m] ]_vars

\* Two instances of useFaceDetection made three calls between them while the
\* load was pending, and all three await the one promise.
C39_Witness ==
  /\ promises["useFaceDetection"] = << "pending" >>
  /\ hooks[1].awaiting = << 1, 1 >>
  /\ hooks[3].awaiting = << 1 >>

\* C40: a failed model load is recoverable.  Once a hook instance has
\* reported the error of a load, a later loadModels call on it, the models
\* still not loaded, starts a new load.
C40_FailedLoadRecoverable ==
  [][ \A h \in HookInstances :
        ( /\ hooks[h].error # Null
          /\ hooks'[h].calls = hooks[h].calls + 1
          /\ ~modelsLoaded[ModuleOf(h)] )
        => Len(promises'[ModuleOf(h)]) = Len(promises[ModuleOf(h)]) + 1 ]_vars

=============================================================================
